---- MODULE Spec2Model ----
(***************************************************************************)
(* State-machine model of the SillyTavern-Utils package: the ValueTracker  *)
(* HTTP client with its TTL cache, the character GUID helpers, the        *)
(* host-wrapper utilities with their error handling, the settings manager, *)
(* the logger and the header buttons.                                      *)
(***************************************************************************)
EXTENDS Integers, Sequences, FiniteSets, TLC

(***************************************************************************)
(* Bounds of the model.                                                    *)
(***************************************************************************)
MaxCalls == 3
MaxReqCalls == 2
MaxManagers == 2
MaxSetCalls == 2
MaxCommands == 3
\* calls on the loggers in one behaviour
MaxLogCalls == 3
\* numeric positions run over -MaxPos..MaxPos
MaxPos == 2
\* children the host has put into the holder before the first header button
MaxHostChildren == 2
\* calls of AddHeaderButton, clicks and removals in one behaviour
MaxHeaderCalls == 4
MaxPending == 2
TickStep == 150000
MaxTime == 300000
MaxProcs == 2
MaxHostOps == 1
MaxGuids == 2
MaxCharCalls == 2

(***************************************************************************)
(* Program constants.                                                      *)
(***************************************************************************)
DEFAULT_TTL == 300000
\* undefined, where a number or a GUID is expected
Undefined == 0

Chars == {"c1"}
Insts == {"i1"}
DataKeys == {"k1"}
Ids == Chars \cup Insts
Owner == [i \in Insts |-> "c1"]
Slots == 1..MaxPending

\* what apiRequest can resolve to: a parsed JSON object, or undefined for an
\* empty (204 / content-length 0) response
ResponseValues == {"object", "undefined"}
Truthy(v) == v = "object"

VARIABLES cache, now, pending, cseq, resolvedAt, lastRead, lastEvicted, budget
\* the extension ID the client holds; the error of the last rejected request,
\* kept while recording is on (history only)
VARIABLES extensionId, lastError, recording
VARIABLES chars, ext, nextGuid, procs, stc, guidWrites, returned, overlapped, foreign,
          firstHadGuid, lastWrite, lastResult, hostBudget, ctxAvailable
VARIABLES chatMetadata, chat, hostFns, lastChat, slashAvailable, slashCommands
\* what each clearCharacterMetadata call found and wrote (history only)
VARIABLES clearLog
\* the host's extensionSettings[moduleName], the settings each SettingsManager
\* holds, the calls of saveSettingsDebounced, and the last set (history only)
VARIABLES extensionSettings, settings, saveCalls, lastSet
\* the input and the result of the last registerMultipleSlashCommands
VARIABLES lastBatch
\* the minimum level of each Logger, and what reached the console
VARIABLES level, console
\* the last call of a log method (history only)
VARIABLES lastLog
\* the element with id top-settings-holder and its children, and the last
\* call on a header button (history only)
VARIABLES holder, lastHeader

reqVars == <<extensionId, lastError, recording>>
vtVars == <<cache, now, pending, cseq, resolvedAt, lastRead, lastEvicted, reqVars>>
settingsVars == <<extensionSettings, settings, saveCalls, lastSet>>
logVars == <<level, console, lastLog>>
uiVars == <<logVars, holder, lastHeader>>
restVars == <<lastBatch, uiVars>>
metaVars == <<clearLog, settingsVars, restVars>>
charCore == <<chars, ext, nextGuid, procs, stc, guidWrites, returned, overlapped, foreign,
              firstHadGuid, lastWrite, hostBudget, ctxAvailable>>
charVars == <<charCore, metaVars>>
hostVars == <<chatMetadata, chat, hostFns, lastChat, slashAvailable, slashCommands>>
vars == <<vtVars, charVars, hostVars, lastResult, budget>>

(***************************************************************************)
(* Cache keys: the template strings of the read methods.                   *)
(***************************************************************************)
AllCharactersKey == <<"all-characters">>
CharacterKey(id) == <<"character", id>>
InstancesKey(characterId) == <<"instances", characterId>>
InstanceKey(id) == <<"instance", id>>
InstanceDataKey(id) == <<"instance-data", id>>
InstanceDataKeyKey(id, key) == <<"instance-data-key", id, key>>

CacheKeys ==
    {AllCharactersKey}
        \cup {CharacterKey(c) : c \in Chars}
        \cup {InstancesKey(c) : c \in Chars}
        \cup {InstanceKey(i) : i \in Insts}
        \cup {InstanceDataKey(i) : i \in Insts}
        \cup {InstanceDataKeyKey(i, k) : i \in Insts, k \in DataKeys}

\* this.baseUrl
BaseUrl == <<"api", "plugins", "valuetracker">>
ExtensionIds == {"e1", "e2"}
\* the extension a registration or a cross-extension read names
OtherExtensions == {"e2"}
\* this.extensionId when undefined or empty
NoExtensionId == ""

\* a request as apiRequest builds it: the endpoint, options.method || 'GET',
\* the x-extension-id header ("none" if not set), and the number of fetch
\* calls made for it
NoRequest == [endpoint |-> <<>>, method |-> "none", header |-> "none", fetches |-> 0]
Request(endpoint, method, includeExtensionId) ==
    [endpoint |-> endpoint, method |-> method,
     header |-> IF includeExtensionId /\ extensionId # NoExtensionId THEN extensionId ELSE "none",
     fetches |-> 1]

\* beside the entry's own fields {data, timestamp, ttl}: stored, asOf and
\* header tell when it was written, which resolved mutations its data
\* reflects, and the x-extension-id it was fetched with (history only)
NoEntry == [present |-> FALSE, data |-> "undefined", timestamp |-> 0, ttl |-> 0, stored |-> 0,
            asOf |-> 0, header |-> "none"]
Idle == [kind |-> "idle", key |-> <<"none">>, keys |-> {}, class |-> "none", id |-> "none",
         issued |-> 0,
         req |-> NoRequest]
NoRead == [key |-> <<"none">>, hit |-> FALSE, fresh |-> FALSE, expired |-> FALSE, stored |-> 0,
           asOf |-> 0, header |-> "none", own |-> "none",
           at |-> 0, seq |-> 0, fetches |-> 0]
\* no cached read yet since the cache was cleared by deregisterExtension or
\* initializeValueTrackerAPI
Cleared == [NoRead EXCEPT !.key = <<"cleared">>]

ReadMethods == {"getAllCharacters", "getCharacter", "getAllInstancesForCharacter",
                "getInstance", "getInstanceData", "getInstanceDataKey"}
CharacterMutators == {"createOrUpdateCharacter", "deleteCharacter"}
InstanceMutators == {"createOrUpdateInstance", "deleteInstance", "deleteAllInstancesForCharacter"}
InstanceDataMutators == {"createOrUpdateInstanceData", "createOrUpdateInstanceDataAlt",
                         "deleteInstanceDataKey", "clearInstanceData", "overrideInstanceData",
                         "mergeInstanceData", "removeInstanceDataKeys"}
Mutators == CharacterMutators \cup InstanceMutators \cup InstanceDataMutators
MutatorClasses == {"character", "instance", "data"}

(***************************************************************************)
(* The private cache helpers.                                              *)
(***************************************************************************)
IsFresh_inclusive(entry, t) == entry.present /\ t - entry.timestamp <= entry.ttl

\* cached && Date.now() - cached.timestamp < cached.ttl
IsFresh(entry, t) == entry.present /\ t - entry.timestamp < entry.ttl

\* getFromCache: the value handed back, and the cache it leaves behind (an
\* expired entry is deleted)
getFromCache(c, key, t) ==
    [value |-> IF IsFresh(c[key], t) THEN c[key].data ELSE "undefined",
     cache |-> IF c[key].present /\ ~IsFresh(c[key], t)
               THEN [c EXCEPT ![key] = NoEntry]
               ELSE c]

\* setCache with the default ttl; stored is the number of mutations that had
\* resolved when the entry was written
setCache(c, key, data, t, seq) ==
    [c EXCEPT ![key] = [present |-> TRUE, data |-> data, timestamp |-> t,
                        ttl |-> DEFAULT_TTL, stored |-> seq, asOf |-> seq, header |-> "none"]]

removeCacheEntries(c, keys) ==
    [k \in CacheKeys |-> IF k \in keys THEN NoEntry ELSE c[k]]

\* the endpoint each cached read requests for its cache key
ReadEndpoint(key) ==
    IF key[1] = "all-characters" THEN <<"characters">>
    ELSE IF key[1] = "character" THEN <<"characters", key[2]>>
    ELSE IF key[1] = "instances" THEN <<"characters", key[2], "instances">>
    ELSE IF key[1] = "instance" THEN <<"instances", key[2]>>
    ELSE IF key[1] = "instance-data" THEN <<"instances", key[2], "data">>
    ELSE <<"instances", key[2], "data", key[3]>>

(***************************************************************************)
(* validateId: what it throws for an id, or nothing.                       *)
(***************************************************************************)
\* ids as callers pass them: those of characters, the empty string and one
\* of white space only
InvalidIds == {"", " "}
CharacterIds == Chars \cup InvalidIds
\* id.trim()
Trim(id) == IF id = " " THEN "" ELSE id
NoDetails == [url |-> <<>>, method |-> "none", endpoint |-> <<>>]
NothingThrown == [type |-> "none", statusCode |-> Undefined, details |-> NoDetails]

\* if (!id || typeof id !== 'string' || id.trim().length === 0) throw new ValueTrackerError(...)
validateId(id) ==
    IF id = "" \/ Trim(id) = ""
    THEN [type |-> "ValueTrackerError", statusCode |-> Undefined, details |-> NoDetails]
    ELSE NothingThrown

(***************************************************************************)
(* A cached read: lookup, early return on a truthy hit, otherwise request. *)
(***************************************************************************)
CachedRead(s, key) ==
    /\ budget > 0
    /\ pending[s] = Idle
    /\ \A t \in Slots : t < s => pending[t] # Idle
    /\ LET r == getFromCache(cache, key, now)
       IN /\ cache' = r.cache
          /\ lastRead' = [key |-> key, hit |-> Truthy(r.value),
                          fresh |-> cache[key].present /\ now - cache[key].timestamp < cache[key].ttl,
                          expired |-> cache[key].present /\ now - cache[key].timestamp >= cache[key].ttl,
                          stored |-> IF Truthy(r.value) THEN cache[key].stored ELSE 0,
                          asOf |-> IF Truthy(r.value) THEN cache[key].asOf ELSE 0,
                          header |-> IF Truthy(r.value) THEN cache[key].header ELSE "none",
                          own |-> IF extensionId # NoExtensionId THEN extensionId ELSE "none",
                          at |-> IF cache[key].present /\ now - cache[key].timestamp >= cache[key].ttl
                                 THEN now ELSE 0,
                          seq |-> cseq, fetches |-> IF Truthy(r.value) THEN 0 ELSE 1]
          /\ pending' = IF Truthy(r.value)
                        THEN pending
                        ELSE [pending EXCEPT ![s] = [kind |-> "read", key |-> key, keys |-> {},
                                                     class |-> "none", id |-> "none",
                                                     issued |-> cseq,
                                                     req |-> Request(ReadEndpoint(key), "GET", TRUE)]]
    /\ budget' = budget - 1
    /\ UNCHANGED <<now, cseq, resolvedAt, lastEvicted, reqVars, charVars, lastResult, hostVars>>

getAllCharacters(s) == CachedRead(s, AllCharactersKey)
\* validateId throws first, before the cache is looked at: the call rejects
getCharacter(s, id) ==
    IF validateId(id).type = "none"
    THEN CachedRead(s, CharacterKey(id))
    ELSE /\ budget > 0
         /\ s = 1
         /\ budget' = budget - 1
         /\ lastResult' = [op |-> "getCharacter", outcome |-> "rejected", value |-> 0,
                           failed |-> FALSE, logged |-> FALSE, error |-> validateId(id)]
         /\ UNCHANGED <<vtVars, charVars, hostVars>>
getAllInstancesForCharacter(s, characterId) ==
    CachedRead(s, InstancesKey(characterId))
getInstance(s, id) == CachedRead(s, InstanceKey(id))
getInstanceData(s, id) == CachedRead(s, InstanceDataKey(id))
getInstanceDataKey(s, id, key) ==
    CachedRead(s, InstanceDataKeyKey(id, key))

(***************************************************************************)
(* A mutating call: the request is issued; the invalidation list is applied *)
(* when the request resolves.                                              *)
(***************************************************************************)
Mutation(s, class, id, keys, endpoint, method) ==
    /\ budget > 0
    /\ pending[s] = Idle
    /\ \A t \in Slots : t < s => pending[t] # Idle
    /\ pending' = [pending EXCEPT ![s] = [kind |-> "mutation", key |-> <<"none">>,
                                          keys |-> keys, class |-> class, id |-> id,
                                          issued |-> 0,
                                          req |-> Request(endpoint, method, TRUE)]]
    /\ budget' = budget - 1
    /\ UNCHANGED <<cache, now, cseq, resolvedAt, lastRead, lastEvicted, reqVars, charVars, lastResult, hostVars>>

createOrUpdateCharacter(s, id) ==
    Mutation(s, "character", id, {AllCharactersKey, CharacterKey(id)},
             <<"characters">>, "POST")
deleteCharacter_keepsCharacterEntry(s, id) ==
    Mutation(s, "character", id, {AllCharactersKey, InstancesKey(id)},
             <<"characters", id>>, "DELETE")
deleteCharacter(s, id) ==
    Mutation(s, "character", id, {AllCharactersKey, CharacterKey(id), InstancesKey(id)},
             <<"characters", id>>, "DELETE")
createOrUpdateInstance(s, id, characterId) ==
    Mutation(s, "instance", id,
             {InstanceKey(id), InstancesKey(characterId), CharacterKey(characterId)},
             <<"instances">>, "POST")
deleteInstance(s, id) ==
    Mutation(s, "instance", id, {InstanceKey(id), InstanceDataKey(id)},
             <<"instances", id>>, "DELETE")
deleteAllInstancesForCharacter(s, characterId) ==
    Mutation(s, "instance", characterId, {InstancesKey(characterId)},
             <<"characters", characterId, "instances">>, "DELETE")
createOrUpdateInstanceData(s, id, key) ==
    Mutation(s, "data", id, {InstanceDataKey(id)}, <<"instances", id, "data">>, "POST")
createOrUpdateInstanceDataAlt(s, id, key) ==
    Mutation(s, "data", id, {InstanceDataKey(id)}, <<"instances", id, "data">>, "PUT")
deleteInstanceDataKey(s, id, key) ==
    Mutation(s, "data", id, {InstanceDataKey(id)}, <<"instances", id, "data", key>>, "DELETE")
clearInstanceData(s, id) ==
    Mutation(s, "data", id, {InstanceDataKey(id)}, <<"instances", id, "data">>, "DELETE")
overrideInstanceData(s, id) ==
    Mutation(s, "data", id, {InstanceDataKey(id)}, <<"instances", id, "data", "override">>, "PUT")
mergeInstanceData(s, id) ==
    Mutation(s, "data", id, {InstanceDataKey(id)}, <<"instances", id, "data", "merge">>, "PUT")
removeInstanceDataKeys(s, id) ==
    Mutation(s, "data", id, {InstanceDataKey(id)}, <<"instances", id, "data", "remove">>, "PUT")

(***************************************************************************)
(* The methods that are not cached: registration and the cross-extension   *)
(* reads pass includeExtensionId = false.                                  *)
(***************************************************************************)
Uncached(s, kind, endpoint, method, includeExtensionId) ==
    /\ budget > 0
    /\ pending[s] = Idle
    /\ \A t \in Slots : t < s => pending[t] # Idle
    /\ pending' = [pending EXCEPT ![s] = [Idle EXCEPT !.kind = kind,
                                            !.req = Request(endpoint, method, includeExtensionId)]]
    /\ budget' = budget - 1
    /\ UNCHANGED <<cache, now, cseq, resolvedAt, lastRead, lastEvicted, reqVars, charVars,
                   lastResult, hostVars>>

registerExtension(s, e) == Uncached(s, "plain", <<"register">>, "POST", FALSE)
deregisterExtension(s, e) == Uncached(s, "deregister", <<"register">>, "DELETE", FALSE)

\* variant that lets apiRequest attach the extension ID
getCrossExtensionCharacter_withHeader(s, e, id) ==
    Uncached(s, "plain", <<"cross-extension", "characters", e, id>>, "GET", TRUE)

getCrossExtensionCharacter(s, e, id) ==
    Uncached(s, "plain", <<"cross-extension", "characters", e, id>>, "GET", FALSE)
getCrossExtensionInstance(s, e, id) ==
    Uncached(s, "plain", <<"cross-extension", "instances", e, id>>, "GET", FALSE)
getCrossExtensionInstanceData(s, e, id) ==
    Uncached(s, "plain", <<"cross-extension", "instances", e, id, "data">>, "GET", FALSE)
getCrossExtensionInstanceDataKey(s, e, id, key) ==
    Uncached(s, "plain", <<"cross-extension", "instances", e, id, "data", key>>, "GET", FALSE)
getAllCrossExtensionCharacters(s, e) ==
    Uncached(s, "plain", <<"cross-extension", "characters", e>>, "GET", FALSE)
getCrossExtensionInstancesByCharacter(s, e, characterId) ==
    Uncached(s, "plain", <<"cross-extension", "characters", e, characterId, "instances">>,
             "GET", FALSE)

setExtensionId(x) ==
    /\ budget > 0
    /\ budget' = budget - 1
    /\ extensionId' = x
    /\ lastResult' = [op |-> "setExtensionId", outcome |-> "returned", value |-> 1,
                      failed |-> FALSE, logged |-> FALSE]
    /\ UNCHANGED <<cache, now, pending, cseq, resolvedAt, lastRead, lastEvicted, lastError,
                   recording, charVars, hostVars>>

getExtensionId == extensionId

\* valueTrackerAPI.setExtensionId(extensionId); valueTrackerAPI.clearCache()
initializeValueTrackerAPI(x) ==
    /\ budget > 0
    /\ budget' = budget - 1
    /\ extensionId' = x
    /\ cache' = [k \in CacheKeys |-> NoEntry]
    /\ lastResult' = [op |-> "initializeValueTrackerAPI", outcome |-> "returned", value |-> 1,
                      failed |-> FALSE, logged |-> FALSE]
    /\ lastRead' = Cleared
    /\ UNCHANGED <<now, pending, cseq, resolvedAt, lastEvicted, lastError, recording, charVars,
                   hostVars>>

getValueTrackerExtensionId == getExtensionId

(***************************************************************************)
(* apiRequest after the fetch: what the response makes of the call.        *)
(***************************************************************************)
\* fetch rejects, or answers with a status and a body that is JSON, not JSON,
\* or empty (content-length 0)
Responses ==
    {[kind |-> "network", status |-> Undefined, body |-> "empty"]}
        \cup {[kind |-> "http", status |-> st, body |-> b] :
                 st \in {200}, b \in {"json", "unparsable", "empty"}}
        \cup {[kind |-> "http", status |-> 204, body |-> "empty"],
              [kind |-> "http", status |-> 404, body |-> "json"],
              [kind |-> "http", status |-> 500, body |-> "unparsable"]}

\* response.ok
Ok(status) == status >= 200 /\ status <= 299

\* {url, method: options.method || 'GET', endpoint}
Details(req) == [url |-> BaseUrl \o req.endpoint, method |-> req.method, endpoint |-> req.endpoint]

ValueTrackerError(statusCode, details) ==
    [type |-> "ValueTrackerError", statusCode |-> statusCode, details |-> details]

NoError == [error |-> [type |-> "none", statusCode |-> Undefined, details |-> Details(NoRequest)],
            cause |-> [kind |-> "none", status |-> Undefined, body |-> "empty"],
            req |-> NoRequest]

\* variant that wraps every caught error as a network error
apiRequest_wrapsAll(req, resp) ==
    IF resp.kind = "network" \/ ~Ok(resp.status)
    THEN [rejected |-> TRUE, value |-> "undefined",
          error |-> ValueTrackerError(Undefined, Details(req))]
    ELSE IF resp.status = 204 \/ resp.body = "empty"
    THEN [rejected |-> FALSE, value |-> "undefined", error |-> NoError.error]
    ELSE IF resp.body = "unparsable"
    THEN [rejected |-> TRUE, value |-> "undefined",
          error |-> ValueTrackerError(Undefined, Details(req))]
    ELSE [rejected |-> FALSE, value |-> "object", error |-> NoError.error]

apiRequest(req, resp) ==
    IF resp.kind = "network"
    THEN [rejected |-> TRUE, value |-> "undefined",
          error |-> ValueTrackerError(Undefined, Details(req))]
    ELSE IF ~Ok(resp.status)
    THEN [rejected |-> TRUE, value |-> "undefined",
          error |-> ValueTrackerError(resp.status, Details(req))]
    ELSE IF resp.status = 204 \/ resp.body = "empty"
    THEN [rejected |-> FALSE, value |-> "undefined", error |-> NoError.error]
    ELSE IF resp.body = "unparsable"
    THEN [rejected |-> TRUE, value |-> "undefined",
          error |-> ValueTrackerError(Undefined, Details(req))]
    ELSE [rejected |-> FALSE, value |-> "object", error |-> NoError.error]

(***************************************************************************)
(* apiRequest settles: a read stores its result, a mutation invalidates,   *)
(* deregisterExtension clears the cache; a rejected request leaves the     *)
(* cache alone.                                                            *)
(***************************************************************************)
RequestResolves(s, data) ==
    /\ pending[s].kind # "idle"
    /\ \E resp \in Responses :
         /\ ~apiRequest(pending[s].req, resp).rejected
         /\ apiRequest(pending[s].req, resp).value = data
    /\ IF pending[s].kind = "read"
       THEN /\ \E v \in pending[s].issued..cseq :
                 cache' = [setCache(cache, pending[s].key, data, now, cseq)
                               EXCEPT ![pending[s].key].asOf = v,
                                      ![pending[s].key].header = pending[s].req.header]
            /\ UNCHANGED <<cseq, resolvedAt, lastEvicted>>
       ELSE IF pending[s].kind = "mutation"
       THEN /\ cache' = removeCacheEntries(cache, pending[s].keys)
            /\ cseq' = cseq + 1
            /\ resolvedAt' = [resolvedAt EXCEPT ![pending[s].class][pending[s].id] = cseq + 1]
            /\ lastEvicted' = {k \in pending[s].keys : cache[k].present}
       ELSE /\ cache' = IF pending[s].kind = "deregister"
                        THEN [k \in CacheKeys |-> NoEntry] ELSE cache
            /\ UNCHANGED <<cseq, resolvedAt, lastEvicted>>
    /\ pending' = [pending EXCEPT ![s] = Idle]
    /\ lastResult' = [op |-> IF pending[s].kind = "deregister" THEN "deregisterExtension"
                             ELSE "ValueTrackerAPI",
                      outcome |-> "returned", value |-> 1,
                      failed |-> FALSE, logged |-> FALSE]
    /\ lastRead' = IF pending[s].kind = "deregister" THEN Cleared ELSE lastRead
    /\ UNCHANGED <<now, budget, reqVars, charVars, hostVars>>

\* variant that fetches a second time before it gives up
RequestRejects_retry(s) ==
    /\ pending[s].kind # "idle"
    /\ IF pending[s].req.fetches < 2
       THEN /\ pending' = [pending EXCEPT ![s].req.fetches = @ + 1]
            /\ UNCHANGED <<lastResult, lastError>>
       ELSE /\ pending' = [pending EXCEPT ![s] = Idle]
            /\ lastResult' = [op |-> "ValueTrackerAPI", outcome |-> "rejected", value |-> 0,
                              failed |-> TRUE, logged |-> TRUE]
            /\ lastError' = lastError
    /\ UNCHANGED <<cache, now, cseq, resolvedAt, lastRead, lastEvicted, budget, extensionId,
                   recording, charVars, hostVars>>

\* variant that invalidates even though the request failed
RequestRejects_invalidates(s) ==
    /\ pending[s].kind # "idle"
    /\ pending' = [pending EXCEPT ![s] = Idle]
    /\ \E resp \in Responses :
         /\ apiRequest(pending[s].req, resp).rejected
         /\ lastError' = IF recording
                         THEN [error |-> apiRequest(pending[s].req, resp).error,
                               cause |-> resp, req |-> pending[s].req]
                         ELSE lastError
    /\ cache' = IF pending[s].kind = "deregister" THEN [k \in CacheKeys |-> NoEntry]
                ELSE removeCacheEntries(cache, pending[s].keys)
    /\ lastResult' = [op |-> "ValueTrackerAPI", outcome |-> "rejected", value |-> 0,
                      failed |-> TRUE, logged |-> TRUE]
    /\ UNCHANGED <<extensionId, recording, now, cseq, resolvedAt, lastRead, lastEvicted, budget,
                   charVars, hostVars>>

RequestRejects(s) ==
    /\ pending[s].kind # "idle"
    /\ pending' = [pending EXCEPT ![s] = Idle]
    /\ \E resp \in Responses :
         /\ apiRequest(pending[s].req, resp).rejected
         /\ lastError' = IF recording
                         THEN [error |-> apiRequest(pending[s].req, resp).error,
                               cause |-> resp, req |-> pending[s].req]
                         ELSE lastError
    /\ UNCHANGED <<extensionId, recording>>
    /\ lastResult' = [op |-> "ValueTrackerAPI", outcome |-> "rejected", value |-> 0,
                      failed |-> TRUE, logged |-> TRUE]
    /\ UNCHANGED <<cache, now, cseq, resolvedAt, lastRead, lastEvicted, budget, charVars, hostVars>>

clearCache ==
    /\ budget > 0
    /\ cache' = [k \in CacheKeys |-> NoEntry]
    /\ budget' = budget - 1
    /\ UNCHANGED <<now, pending, cseq, resolvedAt, lastRead, lastEvicted, reqVars, charVars, lastResult, hostVars>>

RemoveCacheEntriesCall(key) ==
    /\ budget > 0
    /\ cache[key].present
    /\ cache' = removeCacheEntries(cache, {key})
    /\ budget' = budget - 1
    /\ UNCHANGED <<now, pending, cseq, resolvedAt, lastRead, lastEvicted, reqVars, charVars, lastResult, hostVars>>

\* Date.now() advances
Tick ==
    /\ now < MaxTime
    /\ now' = now + TickStep
    /\ UNCHANGED <<cache, pending, cseq, resolvedAt, lastRead, lastEvicted, budget, reqVars, charVars, lastResult, hostVars>>

InitVT ==
    /\ cache = [k \in CacheKeys |-> NoEntry]
    /\ now = 0
    /\ pending = [s \in Slots |-> Idle]
    /\ cseq = 0
    /\ resolvedAt = [m \in MutatorClasses |-> [i \in Ids |-> 0]]
    /\ lastRead = NoRead
    /\ lastEvicted = {}
    /\ lastError = NoError

NextVT ==
    \/ \E s \in Slots : getAllCharacters(s)
    \/ \E s \in Slots, c \in CharacterIds : getCharacter(s, c)
    \/ \E s \in Slots, c \in Chars : getAllInstancesForCharacter(s, c)
    \/ \E s \in Slots, i \in Insts : getInstance(s, i)
    \/ \E s \in Slots, i \in Insts : getInstanceData(s, i)
    \/ \E s \in Slots, i \in Insts, k \in DataKeys : getInstanceDataKey(s, i, k)
    \/ \E s \in Slots, c \in Chars : createOrUpdateCharacter(s, c)
    \/ \E s \in Slots, c \in Chars : deleteCharacter(s, c)
    \/ \E s \in Slots, i \in Insts : createOrUpdateInstance(s, i, Owner[i])
    \/ \E s \in Slots, i \in Insts : deleteInstance(s, i)
    \/ \E s \in Slots, c \in Chars : deleteAllInstancesForCharacter(s, c)
    \/ \E s \in Slots, i \in Insts, k \in DataKeys : createOrUpdateInstanceData(s, i, k)
    \/ \E s \in Slots, i \in Insts, k \in DataKeys : createOrUpdateInstanceDataAlt(s, i, k)
    \/ \E s \in Slots, i \in Insts, k \in DataKeys : deleteInstanceDataKey(s, i, k)
    \/ \E s \in Slots, i \in Insts : clearInstanceData(s, i)
    \/ \E s \in Slots, i \in Insts : overrideInstanceData(s, i)
    \/ \E s \in Slots, i \in Insts : mergeInstanceData(s, i)
    \/ \E s \in Slots, i \in Insts : removeInstanceDataKeys(s, i)
    \/ \E s \in Slots, d \in ResponseValues : RequestResolves(s, d)
    \/ \E s \in Slots : RequestRejects(s)
    \/ clearCache
    \/ \E k \in CacheKeys : RemoveCacheEntriesCall(k)
    \/ Tick

\* the client with its registration, cross-extension and extension ID operations
NextReq ==
    \/ NextVT
    \/ \E s \in Slots, e \in OtherExtensions : registerExtension(s, e)
    \/ \E s \in Slots, e \in OtherExtensions : deregisterExtension(s, e)
    \/ \E s \in Slots, e \in OtherExtensions, c \in Chars : getCrossExtensionCharacter(s, e, c)
    \/ \E s \in Slots, e \in OtherExtensions, i \in Insts : getCrossExtensionInstance(s, e, i)
    \/ \E s \in Slots, e \in OtherExtensions, i \in Insts : getCrossExtensionInstanceData(s, e, i)
    \/ \E s \in Slots, e \in OtherExtensions, i \in Insts, k \in DataKeys :
          getCrossExtensionInstanceDataKey(s, e, i, k)
    \/ \E s \in Slots, e \in OtherExtensions : getAllCrossExtensionCharacters(s, e)
    \/ \E s \in Slots, e \in OtherExtensions, c \in Chars :
          getCrossExtensionInstancesByCharacter(s, e, c)
    \/ \E x \in {NoExtensionId} \cup ExtensionIds : setExtensionId(x)
    \/ \E x \in ExtensionIds : initializeValueTrackerAPI(x)

\* the cached reads with the two operations that clear the cache
NextClear ==
    \/ \E s \in Slots : getAllCharacters(s)
    \/ \E s \in Slots, c \in Chars : getCharacter(s, c)
    \/ \E s \in Slots, c \in Chars : getAllInstancesForCharacter(s, c)
    \/ \E s \in Slots, i \in Insts : getInstance(s, i)
    \/ \E s \in Slots, i \in Insts : getInstanceData(s, i)
    \/ \E s \in Slots, i \in Insts, k \in DataKeys : getInstanceDataKey(s, i, k)
    \/ \E s \in Slots, e \in OtherExtensions : deregisterExtension(s, e)
    \/ \E x \in ExtensionIds : initializeValueTrackerAPI(x)
    \/ \E s \in Slots, d \in ResponseValues : RequestResolves(s, d)
    \/ \E s \in Slots : RequestRejects(s)

\* the cached reads with every operation that sets the extension ID
NextIdentity ==
    \/ NextClear
    \/ \E x \in {NoExtensionId} \cup ExtensionIds : setExtensionId(x)

(***************************************************************************)
(* The host's character list and the character GUID helpers.               *)
(*                                                                         *)
(* Character objects have identity (Objs); chars is context.characters,    *)
(* indexed from 0 as in the code; ext[o] is o.data.extensions, with 0 for  *)
(* an absent (undefined) field.  A call is a process that advances from    *)
(* one await to the next.                                                  *)
(***************************************************************************)
Objs == {"o1", "o2", "o3"}
ExtKeys == {"guid", "k1", "k2"}
SetterKeys == {"guid", "k1"}
\* a GUID bound in an earlier session, and a plain metadata value
StoredGuid == 50
MetaValue == 100
UpdateInputs == {<< <<"k1", MetaValue>>, <<"k2", MetaValue>> >>}
Procs == 1..MaxProcs

IdleProc == [op |-> "idle", pc |-> "idle", obj |-> "none", guid |-> 0, key |-> "none",
             value |-> 0, idx |-> -1, rest |-> <<>>]
NoWrite == [by |-> "none", idx |-> -1, key |-> "none", value |-> 0, carrier |-> -1]
NoResult == [op |-> "none", outcome |-> "none", value |-> 0, failed |-> FALSE, logged |-> FALSE]

GuidOps == {"getOrGenerateCharacterGuid", "getOrGenerateGuid"}
GuidSetterOps == {"setCharacterMetadataValue", "removeCharacterMetadata",
                  "updateCharacterMetadata", "setMetadataValue", "clearCharacterMetadata"}

NoClear == [guid |-> Undefined, obj |-> "none", keys |-> <<>>, writes |-> <<>>, done |-> "idle",
            host |-> 0]
\* the log of a clearCharacterMetadata call: its return value, and each write
LogDone(p, result) ==
    IF procs[p].op = "clearCharacterMetadata" THEN [clearLog EXCEPT ![p].done = result]
    ELSE clearLog
LogWrite(p, w) ==
    IF procs[p].op = "clearCharacterMetadata" THEN [clearLog EXCEPT ![p].writes = Append(@, w)]
    ELSE clearLog

\* characters.indexOf(character): -1 when absent
IndexOf(list, o) ==
    IF \E i \in 1..Len(list) : list[i] = o
    THEN (CHOOSE i \in 1..Len(list) : list[i] = o /\ \A j \in 1..(i - 1) : list[j] # o) - 1
    ELSE -1

\* characters.findIndex(c => c.data?.extensions?.['guid'] === guid)
FindIndexByGuid(list, e, guid) ==
    IF \E i \in 1..Len(list) : e[list[i]]["guid"] = guid
    THEN (CHOOSE i \in 1..Len(list) :
            e[list[i]]["guid"] = guid /\ \A j \in 1..(i - 1) : e[list[j]]["guid"] # guid) - 1
    ELSE -1

\* characters[index]: "none" for undefined
CharacterAt(list, idx) == IF idx >= 0 /\ idx < Len(list) THEN list[idx + 1] ELSE "none"

\* characters.find(c => c.data?.extensions?.['guid'] === guid)
getCharacterByGuid(list, e, guid) == CharacterAt(list, FindIndexByGuid(list, e, guid))

\* the host's writeExtensionField(characterId, key, value): sets the field on
\* the character at that index of the current list, if there is one
writeExtensionField(list, e, idx, key, value) ==
    IF CharacterAt(list, idx) # "none"
    THEN [e EXCEPT ![CharacterAt(list, idx)][key] = value]
    ELSE e

\* context.uuidv4(): a GUID no earlier call produced
uuidv4 == nextGuid + 1

\* the call settles: it returned value, or it rejected; failed tells whether the
\* host context was unavailable to it, logged whether a catch block logged
Finish(p, op, outcome, value, failed, logged) ==
    /\ procs' = [procs EXCEPT ![p] = IdleProc]
    /\ lastResult' = [op |-> op, outcome |-> outcome, value |-> value, failed |-> failed,
                      logged |-> logged]

CanStart(p) ==
    /\ budget > 0
    /\ procs[p] = IdleProc
    /\ \A q \in Procs : q < p => procs[q] # IdleProc

\* two calls that get or generate the GUID of the same character are in flight
Overlap(ps, o) ==
    \E p, q \in Procs : p # q /\ ps[p].op \in GuidOps /\ ps[q].op \in GuidOps
                        /\ ps[p].obj = o /\ ps[q].obj = o

GuidCallInFlight(o) == \E p \in Procs : procs[p].op \in GuidOps /\ procs[p].obj = o

NoteOverlap == overlapped' = [o \in Objs |-> overlapped[o] \/ Overlap(procs', o)]

NoteFirstCall(o) ==
    firstHadGuid' = IF firstHadGuid[o] = "unknown"
                    THEN [firstHadGuid EXCEPT ![o] = IF ext[o]["guid"] # Undefined THEN "yes" ELSE "no"]
                    ELSE firstHadGuid

\* the GUID field of character t is written by a call that is not getting or
\* generating the GUID of t
NoteForeign(t, key, byGuidCallFor) ==
    foreign' = IF t # "none" /\ key = "guid" /\ byGuidCallFor # t
               THEN [foreign EXCEPT ![t] = TRUE]
               ELSE foreign

(***************************************************************************)
(* CharacterUtil.getOrGenerateCharacterGuid(character)                     *)
(***************************************************************************)
\* variant without the early return of a GUID the character already holds
getOrGenerateCharacterGuid_noEarlyReturn(p, o) ==
    /\ CanStart(p)
    /\ budget' = budget - 1
    /\ NoteFirstCall(o)
    /\ procs' = [procs EXCEPT ![p] = [IdleProc EXCEPT !.op = "getOrGenerateCharacterGuid",
                                                      !.pc = "chars", !.obj = o]]
    /\ NoteOverlap
    /\ UNCHANGED <<lastResult, returned>>
    /\ UNCHANGED <<chars, ext, nextGuid, stc, guidWrites, foreign, lastWrite, hostBudget,
                   ctxAvailable, vtVars, hostVars, metaVars>>

getOrGenerateCharacterGuid(p, o) ==
    /\ CanStart(p)
    /\ budget' = budget - 1
    /\ NoteFirstCall(o)
    /\ IF ext[o]["guid"] # Undefined
       THEN /\ lastResult' = [op |-> "getOrGenerateCharacterGuid", outcome |-> "returned",
                              value |-> ext[o]["guid"], failed |-> FALSE, logged |-> FALSE]
            /\ returned' = [returned EXCEPT ![o] = Append(@, ext[o]["guid"])]
            /\ overlapped' = [overlapped EXCEPT ![o] = @ \/ GuidCallInFlight(o)]
            /\ UNCHANGED procs
       ELSE /\ procs' = [procs EXCEPT ![p] = [IdleProc EXCEPT !.op = "getOrGenerateCharacterGuid",
                                                               !.pc = "chars", !.obj = o]]
            /\ NoteOverlap
            /\ UNCHANGED <<lastResult, returned>>
    /\ UNCHANGED <<chars, ext, nextGuid, stc, guidWrites, foreign, lastWrite, hostBudget,
                   ctxAvailable, vtVars, hostVars, metaVars>>

(***************************************************************************)
(* SillyTavernCharacter: getCharacter resolves and caches the character,   *)
(* by GUID when the object holds one, else by legacy index.                *)
(***************************************************************************)
Resolve(st) ==
    IF st.resolved # "none" THEN st.resolved
    ELSE IF st.guid # Undefined THEN getCharacterByGuid(chars, ext, st.guid)
    ELSE IF st.legacyIndex # -1 THEN CharacterAt(chars, st.legacyIndex)
    ELSE "none"

getOrGenerateGuid(p) ==
    /\ CanStart(p)
    /\ budget' = budget - 1
    /\ IF stc.guid # Undefined
       THEN /\ lastResult' = [op |-> "getOrGenerateGuid", outcome |-> "returned", value |-> stc.guid,
                              failed |-> FALSE, logged |-> FALSE]
            /\ returned' = IF stc.resolved # "none"
                           THEN [returned EXCEPT ![stc.resolved] = Append(@, stc.guid)]
                           ELSE returned
            /\ overlapped' = [o \in Objs |->
                                overlapped[o] \/ (o = stc.resolved /\ GuidCallInFlight(o))]
            /\ UNCHANGED procs
       ELSE /\ procs' = [procs EXCEPT ![p] = [IdleProc EXCEPT !.op = "getOrGenerateGuid",
                                                               !.pc = "resolve"]]
            /\ UNCHANGED <<lastResult, returned, overlapped>>
    /\ UNCHANGED <<chars, ext, nextGuid, stc, guidWrites, foreign,
                   firstHadGuid, lastWrite, hostBudget, ctxAvailable, vtVars, hostVars, metaVars>>

\* const character = await this.getCharacter(), then the test for a GUID
\* already on the character
GuidResolved(p) ==
    /\ procs[p].op = "getOrGenerateGuid" /\ procs[p].pc = "resolve"
    /\ IF ~ctxAvailable /\ stc.resolved = "none"
       THEN /\ Finish(p, "getOrGenerateGuid", "rejected", 0, ~ctxAvailable, FALSE)
            /\ UNCHANGED <<stc, returned, overlapped, firstHadGuid>>
       ELSE LET o == Resolve(stc)
            IN IF o = "none"
               THEN /\ Finish(p, "getOrGenerateGuid", "rejected", 0, ~ctxAvailable, FALSE)
                    /\ UNCHANGED <<stc, returned, overlapped, firstHadGuid>>
               ELSE /\ NoteFirstCall(o)
                    /\ IF ext[o]["guid"] # Undefined
                       THEN /\ stc' = [stc EXCEPT !.resolved = o, !.guid = ext[o]["guid"]]
                            /\ Finish(p, "getOrGenerateGuid", "returned", ext[o]["guid"], FALSE, FALSE)
                            /\ returned' = [returned EXCEPT ![o] = Append(@, ext[o]["guid"])]
                            /\ UNCHANGED overlapped
                       ELSE /\ stc' = [stc EXCEPT !.resolved = o]
                            /\ procs' = [procs EXCEPT ![p].pc = "chars", ![p].obj = o]
                            /\ NoteOverlap
                            /\ UNCHANGED <<lastResult, returned>>
    /\ UNCHANGED <<chars, ext, nextGuid, guidWrites, foreign, lastWrite, hostBudget,
                   ctxAvailable, budget, vtVars, hostVars, metaVars>>

\* const characters = await contextUtil.getCharacters(); indexOf(character)
GuidIndexed(p) ==
    /\ procs[p].op \in GuidOps /\ procs[p].pc = "chars"
    /\ IF ~ctxAvailable \/ IndexOf(chars, procs[p].obj) = -1
       THEN Finish(p, procs[p].op, "rejected", 0, ~ctxAvailable, FALSE)
       ELSE /\ procs' = [procs EXCEPT ![p].pc = "ctx", ![p].idx = IndexOf(chars, procs[p].obj)]
            /\ UNCHANGED lastResult
    /\ UNCHANGED <<chars, ext, nextGuid, stc, guidWrites, returned, overlapped, foreign,
                   firstHadGuid, lastWrite, hostBudget, ctxAvailable, budget, vtVars, hostVars,
                   metaVars>>

\* const context = await fetchSillyTavernContext(); guid = context.uuidv4();
\* the call of context.writeExtensionField(String(characterIndex), 'guid', guid)
GuidWritten(p) ==
    /\ procs[p].op \in GuidOps /\ procs[p].pc = "ctx"
    /\ IF ~ctxAvailable
       THEN /\ Finish(p, procs[p].op, "rejected", 0, ~ctxAvailable, FALSE)
            /\ UNCHANGED <<ext, nextGuid, guidWrites, foreign, lastWrite>>
       ELSE /\ nextGuid < MaxGuids
            /\ nextGuid' = nextGuid + 1
            /\ ext' = writeExtensionField(chars, ext, procs[p].idx, "guid", uuidv4)
            /\ guidWrites' = [guidWrites EXCEPT ![procs[p].obj] = @ + 1]
            /\ NoteForeign(CharacterAt(chars, procs[p].idx), "guid", procs[p].obj)
            /\ lastWrite' = [by |-> procs[p].op, idx |-> procs[p].idx, key |-> "guid",
                             value |-> uuidv4, carrier |-> IndexOf(chars, procs[p].obj)]
            /\ procs' = [procs EXCEPT ![p].pc = "written", ![p].guid = uuidv4]
            /\ UNCHANGED lastResult
    /\ UNCHANGED <<chars, stc, returned, overlapped, firstHadGuid, hostBudget, ctxAvailable,
                   budget, vtVars, hostVars, metaVars>>

\* after the awaited write: the GUID is put on the character object in memory
\* (and on the SillyTavernCharacter) and returned
GuidReturned(p) ==
    /\ procs[p].op \in GuidOps /\ procs[p].pc = "written"
    /\ ext' = [ext EXCEPT ![procs[p].obj]["guid"] = procs[p].guid]
    /\ stc' = IF procs[p].op = "getOrGenerateGuid" THEN [stc EXCEPT !.guid = procs[p].guid] ELSE stc
    /\ returned' = [returned EXCEPT ![procs[p].obj] = Append(@, procs[p].guid)]
    /\ Finish(p, procs[p].op, "returned", procs[p].guid, FALSE, FALSE)
    /\ UNCHANGED <<chars, nextGuid, guidWrites, overlapped, foreign, firstHadGuid, lastWrite,
                   hostBudget, ctxAvailable, budget, vtVars, hostVars, metaVars>>

(***************************************************************************)
(* The GUID-addressed setters of CharacterUtil, all built on               *)
(* setCharacterExtensionFieldByGuid; their try/catch turns a throw into    *)
(* the result false (0), success is true (1).                              *)
(***************************************************************************)
SetterStart(p, op, guid, key, value, rest) ==
    /\ CanStart(p)
    /\ budget' = budget - 1
    /\ procs' = [procs EXCEPT ![p] = [IdleProc EXCEPT !.op = op, !.pc = "find", !.guid = guid,
                                                      !.key = key, !.value = value, !.rest = rest]]
    /\ UNCHANGED <<chars, ext, nextGuid, stc, guidWrites, returned, overlapped, foreign,
                   firstHadGuid, lastWrite, lastResult, hostBudget, ctxAvailable, vtVars, hostVars,
                   metaVars>>

setCharacterMetadataValue(p, guid, key, value) ==
    SetterStart(p, "setCharacterMetadataValue", guid, key, value, <<>>)
removeCharacterMetadata(p, guid, key) ==
    SetterStart(p, "removeCharacterMetadata", guid, key, Undefined, <<>>)
updateCharacterMetadata(p, guid, updates) ==
    SetterStart(p, "updateCharacterMetadata", guid, updates[1][1], updates[1][2], Tail(updates))

\* variant without the try/catch of the setters: the throw reaches the caller
SetterFound_noCatch(p) ==
    /\ procs[p].op \in GuidSetterOps /\ procs[p].pc = "find"
    /\ IF ~ctxAvailable \/ FindIndexByGuid(chars, ext, procs[p].guid) = -1
       THEN /\ Finish(p, procs[p].op, "rejected", 0, ~ctxAvailable, FALSE)
            /\ clearLog' = LogDone(p, "false")
       ELSE /\ procs' = [procs EXCEPT ![p].pc = "ctx",
                                      ![p].idx = FindIndexByGuid(chars, ext, procs[p].guid)]
            /\ UNCHANGED <<lastResult, clearLog>>
    /\ UNCHANGED <<chars, ext, nextGuid, stc, guidWrites, returned, overlapped, foreign,
                   firstHadGuid, lastWrite, hostBudget, ctxAvailable, budget, vtVars, hostVars,
                   settingsVars, restVars>>

\* setCharacterExtensionFieldByGuid: await getCharacters(); findIndex by GUID
SetterFound(p) ==
    /\ procs[p].op \in GuidSetterOps /\ procs[p].pc = "find"
    /\ IF ~ctxAvailable \/ FindIndexByGuid(chars, ext, procs[p].guid) = -1
       THEN /\ Finish(p, procs[p].op, "returned", 0, ~ctxAvailable, TRUE)
            /\ clearLog' = LogDone(p, "false")
       ELSE /\ procs' = [procs EXCEPT ![p].pc = "ctx",
                                      ![p].idx = FindIndexByGuid(chars, ext, procs[p].guid)]
            /\ UNCHANGED <<lastResult, clearLog>>
    /\ UNCHANGED <<chars, ext, nextGuid, stc, guidWrites, returned, overlapped, foreign,
                   firstHadGuid, lastWrite, hostBudget, ctxAvailable, budget, vtVars, hostVars,
                   settingsVars, restVars>>

\* await fetchSillyTavernContext(); the call of writeExtensionField
SetterWritten(p) ==
    /\ procs[p].op \in GuidSetterOps /\ procs[p].pc = "ctx" /\ procs[p].op # "setMetadataValue"
    /\ IF ~ctxAvailable
       THEN /\ Finish(p, procs[p].op, "returned", 0, ~ctxAvailable, TRUE)
            /\ clearLog' = LogDone(p, "false")
            /\ UNCHANGED <<ext, foreign, lastWrite>>
       ELSE /\ ext' = writeExtensionField(chars, ext, procs[p].idx, procs[p].key, procs[p].value)
            /\ NoteForeign(CharacterAt(chars, procs[p].idx), procs[p].key, "none")
            /\ lastWrite' = [by |-> procs[p].op, idx |-> procs[p].idx, key |-> procs[p].key,
                             value |-> procs[p].value,
                             carrier |-> FindIndexByGuid(chars, ext, procs[p].guid)]
            /\ clearLog' = LogWrite(p, [key |-> procs[p].key, value |-> procs[p].value,
                                        idx |-> procs[p].idx,
                                        carrier |-> FindIndexByGuid(chars, ext, procs[p].guid)])
            /\ procs' = [procs EXCEPT ![p].pc = "written"]
            /\ UNCHANGED lastResult
    /\ UNCHANGED <<chars, nextGuid, stc, guidWrites, returned, overlapped, firstHadGuid,
                   hostBudget, ctxAvailable, budget, vtVars, hostVars,
                   settingsVars, restVars>>

\* the awaited write is done: the next entry of the updates, or return true
SetterReturned(p) ==
    /\ procs[p].op \in GuidSetterOps /\ procs[p].pc = "written" /\ procs[p].op # "setMetadataValue"
    /\ IF procs[p].rest # <<>>
       THEN /\ procs' = [procs EXCEPT ![p].pc = "find", ![p].key = Head(procs[p].rest)[1],
                                      ![p].value = Head(procs[p].rest)[2],
                                      ![p].rest = Tail(procs[p].rest)]
            /\ UNCHANGED <<lastResult, clearLog>>
       ELSE /\ Finish(p, procs[p].op, "returned", 1, FALSE, FALSE)
            /\ clearLog' = LogDone(p, "true")
    /\ UNCHANGED <<chars, ext, nextGuid, stc, guidWrites, returned, overlapped, foreign,
                   firstHadGuid, lastWrite, hostBudget, ctxAvailable, budget, vtVars, hostVars,
                   settingsVars, restVars>>

(***************************************************************************)
(* CharacterUtil.clearCharacterMetadata(guid): looks the character up,     *)
(* takes Object.keys of its extensions and clears every key but 'guid'     *)
(* through setCharacterExtensionFieldByGuid, one awaited call per key.     *)
(***************************************************************************)
\* Object.keys(character.data.extensions), in insertion order
KeyOrder == <<"guid", "k1", "k2">>
ObjectKeys(e) == LET Present(k) == e[k] # Undefined IN SelectSeq(KeyOrder, Present)
NotGuid(k) == k # "guid"

clearCharacterMetadata(p, guid) ==
    /\ CanStart(p)
    /\ budget' = budget - 1
    /\ procs' = [procs EXCEPT ![p] = [IdleProc EXCEPT !.op = "clearCharacterMetadata",
                                                      !.pc = "lookup", !.guid = guid]]
    /\ clearLog' = [clearLog EXCEPT ![p] = [NoClear EXCEPT !.guid = guid, !.done = "running",
                                                           !.host = hostBudget]]
    /\ UNCHANGED <<chars, ext, nextGuid, stc, guidWrites, returned, overlapped, foreign,
                   firstHadGuid, lastWrite, lastResult, hostBudget, ctxAvailable, vtVars, hostVars,
                   settingsVars, restVars>>

\* variant that stops before the last key
ClearLookedUp_skipsLast(p) ==
    /\ procs[p].op = "clearCharacterMetadata" /\ procs[p].pc = "lookup"
    /\ LET o == getCharacterByGuid(chars, ext, procs[p].guid)
           todo == SubSeq(SelectSeq(ObjectKeys(ext[o]), NotGuid), 1,
                          Len(SelectSeq(ObjectKeys(ext[o]), NotGuid)) - 1)
       IN IF ~ctxAvailable \/ o = "none"
          THEN /\ Finish(p, procs[p].op, "returned", 0, ~ctxAvailable, TRUE)
               /\ clearLog' = LogDone(p, "false")
          ELSE /\ clearLog' = [clearLog EXCEPT ![p].obj = o, ![p].keys = ObjectKeys(ext[o]),
                                               ![p].done = IF todo = <<>> THEN "true" ELSE @]
               /\ IF todo = <<>>
                  THEN Finish(p, procs[p].op, "returned", 1, FALSE, FALSE)
                  ELSE /\ procs' = [procs EXCEPT ![p].pc = "find", ![p].obj = o,
                                        ![p].key = Head(todo), ![p].value = Undefined,
                                        ![p].rest = [i \in 1..(Len(todo) - 1) |->
                                                        <<todo[i + 1], Undefined>>]]
                       /\ UNCHANGED lastResult
    /\ UNCHANGED <<chars, ext, nextGuid, stc, guidWrites, returned, overlapped, foreign,
                   firstHadGuid, lastWrite, hostBudget, ctxAvailable, budget, vtVars, hostVars,
                   settingsVars, restVars>>

\* await this.getCharacterByGuid(guid); the keys to clear
ClearLookedUp(p) ==
    /\ procs[p].op = "clearCharacterMetadata" /\ procs[p].pc = "lookup"
    /\ LET o == getCharacterByGuid(chars, ext, procs[p].guid)
           todo == SelectSeq(ObjectKeys(ext[o]), NotGuid)
       IN IF ~ctxAvailable \/ o = "none"
          THEN /\ Finish(p, procs[p].op, "returned", 0, ~ctxAvailable, TRUE)
               /\ clearLog' = LogDone(p, "false")
          ELSE /\ clearLog' = [clearLog EXCEPT ![p].obj = o, ![p].keys = ObjectKeys(ext[o]),
                                               ![p].done = IF todo = <<>> THEN "true" ELSE @]
               /\ IF todo = <<>>
                  THEN Finish(p, procs[p].op, "returned", 1, FALSE, FALSE)
                  ELSE /\ procs' = [procs EXCEPT ![p].pc = "find", ![p].obj = o,
                                        ![p].key = Head(todo), ![p].value = Undefined,
                                        ![p].rest = [i \in 1..(Len(todo) - 1) |->
                                                        <<todo[i + 1], Undefined>>]]
                       /\ UNCHANGED lastResult
    /\ UNCHANGED <<chars, ext, nextGuid, stc, guidWrites, returned, overlapped, foreign,
                   firstHadGuid, lastWrite, hostBudget, ctxAvailable, budget, vtVars, hostVars,
                   settingsVars, restVars>>

(***************************************************************************)
(* SillyTavernCharacter.exists(): getCharacter() resolved to a character.  *)
(***************************************************************************)
exists(p) ==
    /\ CanStart(p)
    /\ budget' = budget - 1
    /\ procs' = [procs EXCEPT ![p] = [IdleProc EXCEPT !.op = "exists", !.pc = "resolve"]]
    /\ UNCHANGED <<chars, ext, nextGuid, stc, guidWrites, returned, overlapped, foreign,
                   firstHadGuid, lastWrite, lastResult, hostBudget, ctxAvailable, vtVars, hostVars,
                   metaVars>>

\* const character = await this.getCharacter(); return character !== undefined
ExistsResolved(p) ==
    /\ procs[p].op = "exists" /\ procs[p].pc = "resolve"
    /\ IF ~ctxAvailable /\ stc.resolved = "none"
       THEN /\ Finish(p, "exists", "rejected", 0, TRUE, FALSE)
            /\ UNCHANGED stc
       ELSE /\ stc' = [stc EXCEPT !.resolved = Resolve(stc)]
            /\ Finish(p, "exists", "returned", IF Resolve(stc) # "none" THEN 1 ELSE 0,
                      FALSE, FALSE)
    /\ UNCHANGED <<chars, ext, nextGuid, guidWrites, returned, overlapped, foreign,
                   firstHadGuid, lastWrite, hostBudget, ctxAvailable, budget, vtVars, hostVars,
                   metaVars>>

(***************************************************************************)
(* SillyTavernCharacter.setMetadataValue(key, value): no try/catch.        *)
(***************************************************************************)
setMetadataValue(p, key, value) ==
    /\ CanStart(p)
    /\ budget' = budget - 1
    /\ procs' = [procs EXCEPT ![p] = [IdleProc EXCEPT !.op = "setMetadataValue", !.pc = "resolve",
                                                      !.key = key, !.value = value]]
    /\ UNCHANGED <<chars, ext, nextGuid, stc, guidWrites, returned, overlapped, foreign,
                   firstHadGuid, lastWrite, lastResult, hostBudget, ctxAvailable, vtVars, hostVars,
                   metaVars>>

\* const character = await this.getCharacter()
SetResolved(p) ==
    /\ procs[p].op = "setMetadataValue" /\ procs[p].pc = "resolve"
    /\ IF ~ctxAvailable /\ stc.resolved = "none"
       THEN /\ Finish(p, "setMetadataValue", "rejected", 0, ~ctxAvailable, FALSE)
            /\ UNCHANGED stc
       ELSE /\ stc' = [stc EXCEPT !.resolved = Resolve(stc)]
            /\ IF Resolve(stc) = "none"
               THEN Finish(p, "setMetadataValue", "rejected", 0, ~ctxAvailable, FALSE)
               ELSE /\ procs' = [procs EXCEPT ![p].pc = "chars", ![p].obj = Resolve(stc)]
                    /\ UNCHANGED lastResult
    /\ UNCHANGED <<chars, ext, nextGuid, guidWrites, returned, overlapped, foreign,
                   firstHadGuid, lastWrite, hostBudget, ctxAvailable, budget, vtVars, hostVars,
                   metaVars>>

\* const characters = await contextUtil.getCharacters(); indexOf(character)
SetIndexed(p) ==
    /\ procs[p].op = "setMetadataValue" /\ procs[p].pc = "chars"
    /\ IF ~ctxAvailable \/ IndexOf(chars, procs[p].obj) = -1
       THEN Finish(p, "setMetadataValue", "rejected", 0, ~ctxAvailable, FALSE)
       ELSE /\ procs' = [procs EXCEPT ![p].pc = "ctx", ![p].idx = IndexOf(chars, procs[p].obj)]
            /\ UNCHANGED lastResult
    /\ UNCHANGED <<chars, ext, nextGuid, stc, guidWrites, returned, overlapped, foreign,
                   firstHadGuid, lastWrite, hostBudget, ctxAvailable, budget, vtVars, hostVars,
                   metaVars>>

\* await fetchSillyTavernContext(); the call of writeExtensionField
SetWriteIssued(p) ==
    /\ procs[p].op = "setMetadataValue" /\ procs[p].pc = "ctx"
    /\ IF ~ctxAvailable
       THEN /\ Finish(p, "setMetadataValue", "rejected", 0, ~ctxAvailable, FALSE)
            /\ UNCHANGED <<ext, foreign, lastWrite>>
       ELSE /\ ext' = writeExtensionField(chars, ext, procs[p].idx, procs[p].key, procs[p].value)
            /\ NoteForeign(CharacterAt(chars, procs[p].idx), procs[p].key, "none")
            /\ lastWrite' = [by |-> "setMetadataValue", idx |-> procs[p].idx, key |-> procs[p].key,
                             value |-> procs[p].value, carrier |-> IndexOf(chars, procs[p].obj)]
            /\ procs' = [procs EXCEPT ![p].pc = "written"]
            /\ UNCHANGED lastResult
    /\ UNCHANGED <<chars, nextGuid, stc, guidWrites, returned, overlapped, firstHadGuid,
                   hostBudget, ctxAvailable, budget, vtVars, hostVars, metaVars>>

\* the awaited write is done: the character object in memory is updated
SetReturned(p) ==
    /\ procs[p].op = "setMetadataValue" /\ procs[p].pc = "written"
    /\ ext' = [ext EXCEPT ![procs[p].obj][procs[p].key] = procs[p].value]
    /\ NoteForeign(procs[p].obj, procs[p].key, "none")
    /\ Finish(p, "setMetadataValue", "returned", 1, FALSE, FALSE)
    /\ UNCHANGED <<chars, nextGuid, stc, guidWrites, returned, overlapped, firstHadGuid,
                   lastWrite, hostBudget, ctxAvailable, budget, vtVars, hostVars, metaVars>>

(***************************************************************************)
(* The host changes its character list between the steps of the calls.     *)
(***************************************************************************)
HostRemove(i) ==
    /\ hostBudget > 0
    /\ i \in 1..Len(chars)
    /\ chars' = SubSeq(chars, 1, i - 1) \o SubSeq(chars, i + 1, Len(chars))
    /\ hostBudget' = hostBudget - 1
    /\ UNCHANGED <<ext, nextGuid, procs, stc, guidWrites, returned, overlapped, foreign,
                   firstHadGuid, lastWrite, lastResult, ctxAvailable, budget, vtVars, hostVars,
                   metaVars>>

HostInsert(o) ==
    /\ hostBudget > 0
    /\ IndexOf(chars, o) = -1
    /\ chars' = <<o>> \o chars
    /\ hostBudget' = hostBudget - 1
    /\ UNCHANGED <<ext, nextGuid, procs, stc, guidWrites, returned, overlapped, foreign,
                   firstHadGuid, lastWrite, lastResult, ctxAvailable, budget, vtVars, hostVars,
                   metaVars>>

HostReorder ==
    /\ hostBudget > 0
    /\ Len(chars) >= 2
    /\ chars' = Tail(chars) \o <<Head(chars)>>
    /\ hostBudget' = hostBudget - 1
    /\ UNCHANGED <<ext, nextGuid, procs, stc, guidWrites, returned, overlapped, foreign,
                   firstHadGuid, lastWrite, lastResult, ctxAvailable, budget, vtVars, hostVars,
                   metaVars>>

\* the GUIDs that callers can know: those on some character, and the stored one
KnownGuids == ({ext[o]["guid"] : o \in Objs} \cup {StoredGuid}) \ {Undefined}

InitCharList ==
    /\ chars = <<"o1", "o2">>
    /\ ext = [o \in Objs |-> [k \in ExtKeys |->
                IF o = "o2" /\ k = "guid" THEN StoredGuid ELSE Undefined]]
    /\ nextGuid = 0
    /\ procs = [p \in Procs |-> IdleProc]
    /\ guidWrites = [o \in Objs |-> 0]
    /\ returned = [o \in Objs |-> <<>>]
    /\ overlapped = [o \in Objs |-> FALSE]
    /\ foreign = [o \in Objs |-> FALSE]
    /\ firstHadGuid = [o \in Objs |-> "unknown"]
    /\ lastWrite = NoWrite
    /\ lastResult = NoResult
    /\ ctxAvailable = TRUE
    /\ clearLog = [p \in Procs |-> NoClear]

\* new SillyTavernCharacter(identifier): a GUID string or a legacy index
StcByGuid(guid) == [guid |-> guid, legacyIndex |-> -1, resolved |-> "none"]
StcByIndex(index) == [guid |-> Undefined, legacyIndex |-> index, resolved |-> "none"]

\* characters that carry metadata
InitMeta ==
    /\ chars = <<"o1", "o2">>
    /\ ext = [o \in Objs |-> [k \in ExtKeys |->
                IF o = "o2" THEN (IF k = "guid" THEN StoredGuid ELSE MetaValue)
                ELSE IF o = "o1" /\ k = "k1" THEN MetaValue ELSE Undefined]]
    /\ nextGuid = 0
    /\ procs = [p \in Procs |-> IdleProc]
    /\ guidWrites = [o \in Objs |-> 0]
    /\ returned = [o \in Objs |-> <<>>]
    /\ overlapped = [o \in Objs |-> FALSE]
    /\ foreign = [o \in Objs |-> FALSE]
    /\ firstHadGuid = [o \in Objs |-> "unknown"]
    /\ lastWrite = NoWrite
    /\ lastResult = NoResult
    /\ ctxAvailable = TRUE
    /\ clearLog = [p \in Procs |-> NoClear]

\* clearCharacterMetadata and exists under a host that changes its list
NextMeta ==
    \/ \E p \in Procs, g \in KnownGuids \cup {uuidv4} : clearCharacterMetadata(p, g)
    \/ \E p \in Procs : ClearLookedUp(p)
    \/ \E p \in Procs : SetterFound(p)
    \/ \E p \in Procs : SetterWritten(p)
    \/ \E p \in Procs : SetterReturned(p)
    \/ \E p \in Procs : exists(p)
    \/ \E p \in Procs : ExistsResolved(p)
    \/ \E i \in 1..2 : HostRemove(i)
    \/ \E o \in Objs : HostInsert(o)
    \/ HostReorder

NextCharCalls ==
    \/ \E p \in Procs, o \in Objs : getOrGenerateCharacterGuid(p, o)
    \/ \E p \in Procs : getOrGenerateGuid(p)
    \/ \E p \in Procs : GuidResolved(p)
    \/ \E p \in Procs : GuidIndexed(p)
    \/ \E p \in Procs : GuidWritten(p)
    \/ \E p \in Procs : GuidReturned(p)
    \/ \E p \in Procs, g \in KnownGuids, k \in SetterKeys :
            setCharacterMetadataValue(p, g, k, MetaValue)
    \/ \E p \in Procs, g \in KnownGuids, k \in SetterKeys : removeCharacterMetadata(p, g, k)
    \/ \E p \in Procs, g \in KnownGuids, u \in UpdateInputs : updateCharacterMetadata(p, g, u)
    \/ \E p \in Procs : SetterFound(p)
    \/ \E p \in Procs : SetterWritten(p)
    \/ \E p \in Procs : SetterReturned(p)
    \/ \E p \in Procs, k \in SetterKeys : setMetadataValue(p, k, MetaValue)
    \/ \E p \in Procs : SetResolved(p)
    \/ \E p \in Procs : SetIndexed(p)
    \/ \E p \in Procs : SetWriteIssued(p)
    \/ \E p \in Procs : SetReturned(p)

NextChar ==
    \/ NextCharCalls
    \/ \E i \in 1..2 : HostRemove(i)
    \/ \E o \in Objs : HostInsert(o)
    \/ HostReorder

(***************************************************************************)
(* ContextUtil: every accessor awaits fetchSillyTavernContext and reads a  *)
(* property or calls a host function, with no try/catch.  The outcome of a *)
(* method body is a record: threw, the value (shown as a string), and the  *)
(* chat metadata and chat it leaves.                                       *)
(***************************************************************************)
MetaKeys == {"a", "b"}
Absent == "absent"
\* stored values: a truthy one and the empty string
MetaValues == {"v", ""}
MessageKinds == {"user", "char", "system"}
HostFunctions == {"addOneMessage", "deleteLastMessage", "saveChat", "printMessages",
                  "reloadCurrentChat", "getTokenCount", "removeCommand", "getCommands"}
CommandNames == {"cmd1", "cmd2"}
ContextAccessors == {"getChat", "getCharacters", "getGroups", "getUserName", "getCharacterName",
                     "getCharacterId", "getGroupId", "getChatId", "getMaxContext",
                     "getChatMetadata", "getExtensionSettings", "isInGroupChat"}

Throw == [threw |-> TRUE, value |-> "error", meta |-> chatMetadata, chat |-> chat]
Return(v) == [threw |-> FALSE, value |-> v, meta |-> chatMetadata, chat |-> chat]
ReturnWith(v, m, c) == [threw |-> FALSE, value |-> v, meta |-> m, chat |-> c]

\* try { return body } catch (error) { log; return sentinel }
TryCatch(body, sentinel) == IF body.threw THEN [body EXCEPT !.threw = FALSE, !.value = sentinel]
                            ELSE body

ShowCount(n) == <<"0", "1", "2", "3">>[n + 1]
ShowList(list) == IF list = <<>> THEN "[]" ELSE "messages"
ShowMessage(list, i) == IF i >= 1 /\ i <= Len(list) THEN list[i] ELSE "undefined"
Falsy(v) == v \in {Absent, ""}

\* fetchSillyTavernContext: the context object, or
\* Error('SillyTavern context is not available')
fetchSillyTavernContext == IF ctxAvailable THEN Return("context") ELSE Throw

\* an accessor that returns a property of the context
ContextProperty(v) == IF fetchSillyTavernContext.threw THEN Throw ELSE Return(v)

\* ContextUtil.reloadCurrentChat: the host function is called only if present
ContextUtil_reloadCurrentChat(hostThrows) ==
    IF fetchSillyTavernContext.threw THEN Throw
    ELSE IF "reloadCurrentChat" \in hostFns /\ hostThrows THEN Throw
    ELSE Return("undefined")

\* ContextUtil.getTokenCount: context.getTokenCount(str, padding)
ContextUtil_getTokenCount(hostThrows) ==
    IF fetchSillyTavernContext.threw THEN Throw
    ELSE IF "getTokenCount" \notin hostFns \/ hostThrows THEN Throw
    ELSE Return("n")

\* ContextUtil has no method clearChat: the call contextUtil.clearChat() is a
\* TypeError
ContextUtil_clearChat == Throw

(***************************************************************************)
(* ChatUtil: every public method is one try/catch around its body.         *)
(***************************************************************************)
NoChat == [op |-> "none", failed |-> FALSE, outcome |-> "none", value |-> "none",
           before |-> [present |-> TRUE, map |-> [k \in MetaKeys |-> Absent]],
           after |-> [present |-> TRUE, map |-> [k \in MetaKeys |-> Absent]]]

\* a call of a ChatUtil method settles with result r; failed tells whether the
\* context was unavailable, chatMetadata or the host function missing, or the
\* host call threw
ChatCall(op, failed, r) ==
    /\ budget > 0
    /\ budget' = budget - 1
    /\ lastChat' = [op |-> op, failed |-> failed,
                    outcome |-> IF r.threw THEN "rejected" ELSE "returned",
                    value |-> r.value, before |-> chatMetadata, after |-> r.meta]
    /\ chatMetadata' = r.meta
    /\ chat' = r.chat
    /\ UNCHANGED <<hostFns, slashAvailable, slashCommands, lastResult, vtVars, charVars>>

\* the guard shared by the metadata methods
MetadataBody(missing, present) ==
    IF fetchSillyTavernContext.threw THEN Throw
    ELSE IF ~chatMetadata.present THEN Return(missing)
    ELSE present

MetadataFailed == ~ctxAvailable \/ ~chatMetadata.present

getChatMetadata ==
    ChatCall("getChatMetadata", MetadataFailed,
             TryCatch(MetadataBody("null", Return("object")), "null"))

setChatMetadata(key, value) ==
    ChatCall("setChatMetadata", MetadataFailed,
             TryCatch(MetadataBody("false",
                        ReturnWith("true", [chatMetadata EXCEPT !.map[key] = value], chat)),
                      "false"))

getChatMetadataValue(key) ==
    ChatCall("getChatMetadataValue", MetadataFailed,
             TryCatch(MetadataBody("null",
                        Return(IF Falsy(chatMetadata.map[key]) THEN "null"
                               ELSE chatMetadata.map[key])),
                      "null"))

removeChatMetadata(key) ==
    ChatCall("removeChatMetadata", MetadataFailed,
             TryCatch(MetadataBody("false",
                        ReturnWith("true", [chatMetadata EXCEPT !.map[key] = Absent], chat)),
                      "false"))

updateChatMetadata(updates) ==
    ChatCall("updateChatMetadata", MetadataFailed,
             TryCatch(MetadataBody("false",
                        ReturnWith("true",
                            [chatMetadata EXCEPT !.map = [k \in MetaKeys |->
                                IF k \in DOMAIN updates THEN updates[k] ELSE @[k]]], chat)),
                      "false"))

clearChatMetadata ==
    ChatCall("clearChatMetadata", MetadataFailed,
             TryCatch(MetadataBody("false",
                        ReturnWith("true",
                            [chatMetadata EXCEPT !.map = [k \in MetaKeys |-> Absent]], chat)),
                      "false"))

hasChatMetadataKey(key) ==
    ChatCall("hasChatMetadataKey", MetadataFailed,
             TryCatch(MetadataBody("false",
                        Return(IF chatMetadata.map[key] # Absent THEN "true" ELSE "false")),
                      "false"))

getChatId == ChatCall("getChatId", ~ctxAvailable, TryCatch(ContextProperty("chat-id"), "null"))

\* the list that ChatUtil.getChatMessages resolves to
ChatMessages == IF fetchSillyTavernContext.threw THEN <<>> ELSE chat

getChatMessages ==
    ChatCall("getChatMessages", ~ctxAvailable,
             TryCatch(ContextProperty(ShowList(chat)), "[]"))

getLastMessage ==
    ChatCall("getLastMessage", ~ctxAvailable,
             TryCatch(ContextProperty(ShowMessage(chat, Len(chat))), "undefined"))

getChatMessageCount ==
    ChatCall("getChatMessageCount", ~ctxAvailable,
             TryCatch(Return(ShowCount(Len(ChatMessages))), "0"))

getChatMessage(index) ==
    ChatCall("getChatMessage", ~ctxAvailable,
             TryCatch(ContextProperty(ShowMessage(chat, index + 1)), "undefined"))

\* the body shared by addMessage, deleteLastMessage, saveChat and printMessages:
\* the typeof check of the host function, then the call
HostActionBody(fn, hostThrows, chatAfter) ==
    IF fetchSillyTavernContext.threw THEN Throw
    ELSE IF fn \notin hostFns THEN Return("false")
    ELSE IF hostThrows THEN Throw
    ELSE ReturnWith("true", chatMetadata, chatAfter)

HostActionFailed(fn, hostThrows) == ~ctxAvailable \/ fn \notin hostFns \/ hostThrows

\* the host renders the message
addMessage(hostThrows) ==
    ChatCall("addMessage", HostActionFailed("addOneMessage", hostThrows),
             TryCatch(HostActionBody("addOneMessage", hostThrows, chat), "false"))

deleteLastMessage(hostThrows) ==
    ChatCall("deleteLastMessage", HostActionFailed("deleteLastMessage", hostThrows),
             TryCatch(HostActionBody("deleteLastMessage", hostThrows,
                                     SubSeq(chat, 1, Len(chat) - 1)), "false"))

UserMessages == SelectSeq(ChatMessages, LAMBDA m : m = "user")
CharacterMessages == SelectSeq(ChatMessages, LAMBDA m : m # "user" /\ m # "system")
SystemMessages == SelectSeq(ChatMessages, LAMBDA m : m = "system")

getUserMessages ==
    ChatCall("getUserMessages", ~ctxAvailable, TryCatch(Return(ShowList(UserMessages)), "[]"))
getCharacterMessages ==
    ChatCall("getCharacterMessages", ~ctxAvailable,
             TryCatch(Return(ShowList(CharacterMessages)), "[]"))
getSystemMessages ==
    ChatCall("getSystemMessages", ~ctxAvailable,
             TryCatch(Return(ShowList(SystemMessages)), "[]"))
getUserMessageCount ==
    ChatCall("getUserMessageCount", ~ctxAvailable,
             TryCatch(Return(ShowCount(Len(UserMessages))), "0"))
getCharacterMessageCount ==
    ChatCall("getCharacterMessageCount", ~ctxAvailable,
             TryCatch(Return(ShowCount(Len(CharacterMessages))), "0"))

saveChat(hostThrows) ==
    ChatCall("saveChat", HostActionFailed("saveChat", hostThrows),
             TryCatch(HostActionBody("saveChat", hostThrows, chat), "false"))

reloadCurrentChat(hostThrows) ==
    ChatCall("reloadCurrentChat", HostActionFailed("reloadCurrentChat", hostThrows),
             TryCatch(IF ContextUtil_reloadCurrentChat(hostThrows).threw THEN Throw
                      ELSE Return("true"), "false"))

clearChat ==
    ChatCall("clearChat", ~ctxAvailable,
             TryCatch(IF ContextUtil_clearChat.threw THEN Throw ELSE Return("true"), "false"))

getMaxContextLength ==
    ChatCall("getMaxContextLength", ~ctxAvailable, TryCatch(ContextProperty("n"), "0"))

getTokenCount(hostThrows) ==
    ChatCall("getTokenCount", HostActionFailed("getTokenCount", hostThrows),
             TryCatch(ContextUtil_getTokenCount(hostThrows), "0"))

printMessages(hostThrows) ==
    ChatCall("printMessages", HostActionFailed("printMessages", hostThrows),
             TryCatch(HostActionBody("printMessages", hostThrows, chat), "false"))

(***************************************************************************)
(* The host: the context comes and goes, chatMetadata and the optional     *)
(* host functions are present or not.                                      *)
(***************************************************************************)
HostChange ==
    /\ hostBudget > 0
    /\ hostBudget' = hostBudget - 1
    /\ UNCHANGED <<chars, ext, nextGuid, procs, stc, guidWrites, returned, overlapped, foreign,
                   firstHadGuid, lastWrite, lastResult, lastChat, chat, slashCommands, budget,
                   vtVars, metaVars>>

HostContextChange ==
    /\ HostChange
    /\ ctxAvailable' = ~ctxAvailable
    /\ UNCHANGED <<chatMetadata, hostFns, slashAvailable>>

HostMetadataChange ==
    /\ HostChange
    /\ chatMetadata' = [chatMetadata EXCEPT !.present = ~@]
    /\ UNCHANGED <<ctxAvailable, hostFns, slashAvailable>>

HostFunctionChange(fn) ==
    /\ HostChange
    /\ hostFns' = IF fn \in hostFns THEN hostFns \ {fn} ELSE hostFns \cup {fn}
    /\ UNCHANGED <<ctxAvailable, chatMetadata, slashAvailable>>

HostSlashChange ==
    /\ HostChange
    /\ slashAvailable' = ~slashAvailable
    /\ UNCHANGED <<ctxAvailable, chatMetadata, hostFns>>

UpdateChatInputs == {[k \in MetaKeys |-> "v"], [k \in {"a"} |-> ""]}

(***************************************************************************)
(* Logger.  Each Logger holds its minimum level; console is what the       *)
(* console methods were handed, in order.                                  *)
(***************************************************************************)
DEBUG == 0
INFO == 1
WARN == 2
ERROR == 3
NONE == 4
LogLevels == {DEBUG, INFO, WARN, ERROR, NONE}
\* the exported default instance and one a caller makes
Loggers == {"logger", "custom"}
\* options.level: absent, or a level
LevelOptions == {{}} \cup {{x} : x \in LogLevels}
NoLog == [by |-> "none", method |-> "none", min |-> NONE, emitted |-> FALSE]

\* this.level = options.level ?? LogLevel.INFO
LoggerLevel(options) == IF options = {} THEN INFO ELSE CHOOSE x \in options : TRUE

\* variant of shouldLog with > in place of >=
shouldLog_above(l, logLevel) == logLevel > level[l]

\* return logLevel >= this.level
shouldLog(l, logLevel) == logLevel >= level[l]

\* `[${this.prefix}] [${level}] ` + message, without the timestamp
formatMessage(l, tag) == [by |-> l, tag |-> tag]

\* if (this.shouldLog(LogLevel.X)) { console.x(this.formatMessage('X', message)) }
Emit(l, method, logLevel, tag) ==
    /\ budget > 0
    /\ budget' = budget - 1
    /\ console' = IF shouldLog(l, logLevel)
                  THEN Append(console, [method |-> method, text |-> formatMessage(l, tag)])
                  ELSE console
    /\ lastLog' = [by |-> l, method |-> method, min |-> level[l],
                   emitted |-> shouldLog(l, logLevel)]
    /\ UNCHANGED <<level, holder, lastHeader, lastBatch, clearLog, settingsVars, charCore,
                   vtVars, hostVars, lastResult>>

debug(l) == Emit(l, "debug", DEBUG, "DEBUG")
info(l) == Emit(l, "info", INFO, "INFO")
warn(l) == Emit(l, "warn", WARN, "WARN")
error(l) == Emit(l, "error", ERROR, "ERROR")

\* setLevel(level) { this.level = level }
setLevel(l, x) ==
    /\ budget > 0
    /\ budget' = budget - 1
    /\ level' = [level EXCEPT ![l] = x]
    /\ UNCHANGED <<console, lastLog, holder, lastHeader, lastBatch, clearLog, settingsVars,
                   charCore, vtVars, hostVars, lastResult>>

\* new Logger(options): the caller's logger is made anew
Logger(options) ==
    /\ budget > 0
    /\ budget' = budget - 1
    /\ level' = [level EXCEPT !["custom"] = LoggerLevel(options)]
    /\ UNCHANGED <<console, lastLog, holder, lastHeader, lastBatch, clearLog, settingsVars,
                   charCore, vtVars, hostVars, lastResult>>

\* export const logger = new Logger({prefix: 'OutfitsExtension'})
InitLogger ==
    /\ level = [l \in Loggers |-> LoggerLevel({})]
    /\ console = <<>>
    /\ lastLog = NoLog

NextLog ==
    \/ \E l \in Loggers : debug(l)
    \/ \E l \in Loggers : info(l)
    \/ \E l \in Loggers : warn(l)
    \/ \E l \in Loggers : error(l)
    \/ \E l \in Loggers, x \in LogLevels : setLevel(l, x)
    \/ \E o \in LevelOptions : Logger(o)

(***************************************************************************)
(* AddHeaderButton.  holder is document.getElementById('top-settings-      *)
(* holder'): present or not, with its children in document order.  A child *)
(* is a drawer: its id, whether AddHeaderButton made it, whether its icon  *)
(* carries openIcon and whether its content carries openDrawer.            *)
(***************************************************************************)
ButtonIds == {"b1", "b2"}
HostIds == <<"h1", "h2">>
\* options.position: a number, 'first', 'last', or left out
Positions ==
    {[kind |-> "number", n |-> p] : p \in (0 - MaxPos)..MaxPos}
        \cup {[kind |-> k, n |-> 0] : k \in {"first", "last", "omitted"}}
NoHeader == [op |-> "none", outcome |-> "none", id |-> "none"]

\* a drawer of the host itself
HostDrawer(id, open) == [id |-> id, made |-> FALSE, icon |-> open, content |-> open]
\* buttonContainer: iconEl with closedIcon, drawerContent with closedDrawer
NewButton(id) == [id |-> id, made |-> TRUE, icon |-> FALSE, content |-> FALSE]
\* iconEl.id = `${options.id}-icon`
IconId(e) == <<e.id, "icon">>

\* holder.insertBefore(node, children[i]): children[i] is undefined outside
\* 0..length-1, and insertBefore then appends
insertBefore(children, node, i) ==
    IF i \in 0..(Len(children) - 1)
    THEN SubSeq(children, 1, i) \o <<node>> \o SubSeq(children, i + 1, Len(children))
    ELSE Append(children, node)

\* the position handling of AddHeaderButton
Place(children, node, position) ==
    IF position.kind = "number"
    THEN IF position.n < 0
         THEN insertBefore(children, node, Len(children) + position.n)
         ELSE IF position.n >= Len(children)
              THEN Append(children, node)
              ELSE insertBefore(children, node, position.n)
    ELSE IF position.kind = "last"
         THEN Append(children, node)
         ELSE <<node>> \o children

AddHeaderButton(id, position) ==
    /\ budget > 0
    /\ budget' = budget - 1
    /\ IF ~holder.present
       THEN /\ lastHeader' = [op |-> "AddHeaderButton", outcome |-> "threw", id |-> id]
            /\ UNCHANGED holder
       ELSE /\ holder' = [holder EXCEPT !.children = Place(@, NewButton(id), position)]
            /\ lastHeader' = [op |-> "AddHeaderButton", outcome |-> "returned", id |-> id]
    /\ UNCHANGED <<logVars, lastBatch, clearLog, settingsVars, charCore, vtVars, hostVars,
                   lastResult>>

\* the forEach over '#top-settings-holder .drawer-toggle': every drawer whose
\* icon id differs from that of the clicked one is closed
CloseOthers(children, i) ==
    [j \in 1..Len(children) |->
        IF IconId(children[j]) # IconId(children[i])
        THEN [children[j] EXCEPT !.icon = FALSE, !.content = FALSE]
        ELSE children[j]]

\* variant of the click handler that only toggles the clicked drawer
ClickHandler_toggleOnly(children, i) ==
    [children EXCEPT ![i].icon = ~children[i].icon, ![i].content = ~children[i].content]

\* the click listener of drawerToggle
ClickHandler(children, i) ==
    LET isOpened == children[i].icon
    IN [CloseOthers(children, i) EXCEPT ![i].icon = ~isOpened, ![i].content = ~isOpened]

\* a click on the toggle of the i-th child, one that AddHeaderButton made
click(i) ==
    /\ budget > 0
    /\ budget' = budget - 1
    /\ holder.present
    /\ i \in 1..Len(holder.children)
    /\ holder.children[i].made
    /\ holder' = [holder EXCEPT !.children = ClickHandler(@, i)]
    /\ lastHeader' = [op |-> "click", outcome |-> "returned", id |-> holder.children[i].id]
    /\ UNCHANGED <<logVars, lastBatch, clearLog, settingsVars, charCore, vtVars, hostVars,
                   lastResult>>

\* the remove() that AddHeaderButton returned: buttonContainer.remove()
remove(i) ==
    /\ budget > 0
    /\ budget' = budget - 1
    /\ holder.present
    /\ i \in 1..Len(holder.children)
    /\ holder.children[i].made
    /\ holder' = [holder EXCEPT !.children =
                      SubSeq(@, 1, i - 1) \o SubSeq(@, i + 1, Len(@))]
    /\ lastHeader' = [op |-> "remove", outcome |-> "returned", id |-> holder.children[i].id]
    /\ UNCHANGED <<logVars, lastBatch, clearLog, settingsVars, charCore, vtVars, hostVars,
                   lastResult>>

\* the page before the first header button: no holder, or a holder with the
\* host's own drawers, at most one of them open
Holders ==
    {[present |-> FALSE, children |-> <<>>]}
        \cup {[present |-> TRUE,
                children |-> [j \in 1..n |-> HostDrawer(HostIds[j], j = o)]] :
                    n \in 0..MaxHostChildren, o \in 0..1}

InitUi ==
    /\ InitLogger
    /\ holder = [present |-> TRUE, children |-> <<>>]
    /\ lastHeader = NoHeader

NextHeader ==
    \/ \E id \in ButtonIds, position \in Positions : AddHeaderButton(id, position)
    \/ \E i \in 1..(MaxHostChildren + MaxHeaderCalls) : click(i)
    \/ \E i \in 1..(MaxHostChildren + MaxHeaderCalls) : remove(i)

(***************************************************************************)
(* SettingsManager.  The host's extensionSettings[moduleName] is an object *)
(* or absent; the values are shown as strings: "undefined" and "null", the *)
(* falsy "" (as false and 0), and truthy ones.                             *)
(***************************************************************************)
SchemaKeys == {"s1", "s2"}
\* the keys the host entry can hold: those of the schema and a foreign one
StoredKeys == SchemaKeys \cup {"x"}
Nullish == {"undefined", "null"}
SettingValues == {"null", "", "v"}
\* this.defaultSettings[key].value
DefaultValue == [k \in SchemaKeys |-> "default"]
Mgrs == 1..MaxManagers

NoModule == [present |-> FALSE, map |-> [k \in StoredKeys |-> "undefined"]]
StoredModules ==
    {NoModule} \cup {[present |-> TRUE, map |-> f] :
                        f \in [StoredKeys -> Nullish \cup {"", "v"}]}
NotConstructed == [constructed |-> FALSE, values |-> [k \in SchemaKeys |-> "undefined"]]
NoSet == [mgr |-> 0, key |-> "none", value |-> "undefined", next |-> 0]

\* variant of load with || in place of ??
load_or(es) ==
    [k \in SchemaKeys |->
        IF (IF es.present THEN es.map[k] ELSE "undefined") \in Nullish \cup {""}
        THEN DefaultValue[k] ELSE es.map[k]]

\* (extensionSettings[moduleName] ?? {})[key] ?? defaultSettings[key].value
load(es) ==
    [k \in SchemaKeys |->
        IF (IF es.present THEN es.map[k] ELSE "undefined") \in Nullish
        THEN DefaultValue[k] ELSE es.map[k]]

\* the entry is created if absent; Object.assign(entry, this.settings)
save(es, st) ==
    [present |-> TRUE,
     map |-> [k \in StoredKeys |->
                IF k \in SchemaKeys THEN st[k]
                ELSE IF es.present THEN es.map[k] ELSE "undefined"]]

get(m, key) == settings[m].values[key]

\* new SettingsManager(defaultSettings, moduleName)
SettingsManager(m) ==
    /\ ~settings[m].constructed
    /\ \A n \in Mgrs : n < m => settings[n].constructed
    /\ settings' = [settings EXCEPT ![m] = [constructed |-> TRUE,
                                            values |-> load(extensionSettings)]]
    /\ lastSet' = IF lastSet = NoSet THEN lastSet ELSE [lastSet EXCEPT !.next = m]
    /\ UNCHANGED <<extensionSettings, saveCalls, restVars, clearLog, charCore, vtVars, hostVars,
                   lastResult, budget>>

\* variant of set that does not save
set_withoutSave(m, key, value) ==
    /\ budget > 0
    /\ budget' = budget - 1
    /\ settings[m].constructed
    /\ settings' = [settings EXCEPT ![m].values[key] = value]
    /\ lastSet' = [mgr |-> m, key |-> key, value |-> value, next |-> 0]
    /\ UNCHANGED <<extensionSettings, saveCalls, restVars, clearLog, charCore, vtVars, hostVars,
                   lastResult>>

\* this.settings[key] = value; this.save()
set(m, key, value) ==
    /\ budget > 0
    /\ budget' = budget - 1
    /\ settings[m].constructed
    /\ settings' = [settings EXCEPT ![m].values[key] = value]
    /\ extensionSettings' = save(extensionSettings, [settings[m].values EXCEPT ![key] = value])
    /\ saveCalls' = saveCalls + 1
    /\ lastSet' = [mgr |-> m, key |-> key, value |-> value, next |-> 0]
    /\ UNCHANGED <<restVars, clearLog, charCore, vtVars, hostVars, lastResult>>

NextSettings ==
    \/ \E m \in Mgrs : SettingsManager(m)
    \/ \E m \in Mgrs, k \in SchemaKeys, v \in SettingValues : set(m, k, v)

NoBatch == [input |-> <<>>, available |-> TRUE, success |-> 0, failed |-> 0,
            failedCommands |-> <<>>, addCalls |-> <<>>, outcome |-> "none"]

InitHostBase ==
    /\ chatMetadata = [present |-> TRUE, map |-> [k \in MetaKeys |-> Absent]]
    /\ chat = <<"user", "char", "system">>
    /\ hostFns = HostFunctions
    /\ lastChat = NoChat
    /\ slashAvailable = TRUE
    /\ slashCommands = {}
    /\ lastBatch = NoBatch

InitHostCore ==
    /\ InitHostBase
    /\ InitUi

InitHost ==
    /\ InitHostCore
    /\ extensionSettings = NoModule
    /\ settings = [m \in Mgrs |-> NotConstructed]
    /\ saveCalls = 0
    /\ lastSet = NoSet

NextChat ==
    \/ getChatMetadata
    \/ \E k \in MetaKeys, v \in MetaValues : setChatMetadata(k, v)
    \/ \E k \in MetaKeys : getChatMetadataValue(k)
    \/ \E k \in MetaKeys : removeChatMetadata(k)
    \/ \E u \in UpdateChatInputs : updateChatMetadata(u)
    \/ clearChatMetadata
    \/ \E k \in MetaKeys : hasChatMetadataKey(k)
    \/ getChatId
    \/ getChatMessages
    \/ getLastMessage
    \/ getChatMessageCount
    \/ \E i \in 0..3 : getChatMessage(i)
    \/ \E t \in BOOLEAN : addMessage(t)
    \/ \E t \in BOOLEAN : deleteLastMessage(t)
    \/ getUserMessages
    \/ getCharacterMessages
    \/ getSystemMessages
    \/ getUserMessageCount
    \/ getCharacterMessageCount
    \/ \E t \in BOOLEAN : saveChat(t)
    \/ \E t \in BOOLEAN : reloadCurrentChat(t)
    \/ clearChat
    \/ getMaxContextLength
    \/ \E t \in BOOLEAN : getTokenCount(t)
    \/ \E t \in BOOLEAN : printMessages(t)
    \/ HostContextChange
    \/ HostMetadataChange
    \/ \E fn \in HostFunctions : HostFunctionChange(fn)

(***************************************************************************)
(* ContextUtil accessors as calls, and the getters of CharacterUtil.        *)
(***************************************************************************)
Settle(op, outcome, value, failed, logged) ==
    /\ budget > 0
    /\ budget' = budget - 1
    /\ lastResult' = [op |-> op, outcome |-> outcome, value |-> value, failed |-> failed,
                      logged |-> logged]
    /\ UNCHANGED <<vtVars, charVars, chatMetadata, chat, hostFns, lastChat, slashAvailable>>

\* getChat, getCharacters, getChatId, ...: the property, or the rejection of
\* fetchSillyTavernContext
ContextAccessor(name) ==
    /\ IF ContextProperty("value").threw
       THEN Settle(name, "rejected", 0, TRUE, FALSE)
       ELSE Settle(name, "returned", 1, FALSE, FALSE)
    /\ UNCHANGED slashCommands

\* getCharacterMetadata / getCharacterMetadataValue: try { getCharacterByGuid;
\* not found -> log, null; the value } catch { log; null }
CharacterGetter(op, guid, value) ==
    /\ IF ContextProperty("characters").threw
       THEN Settle(op, "returned", 0, TRUE, TRUE)
       ELSE IF getCharacterByGuid(chars, ext, guid) = "none"
            THEN Settle(op, "returned", 0, FALSE, TRUE)
            ELSE Settle(op, "returned", value, FALSE, FALSE)
    /\ UNCHANGED slashCommands

getCharacterMetadata(guid) == CharacterGetter("getCharacterMetadata", guid, 1)

\* character.data.extensions[key] || null
getCharacterMetadataValue(guid, key) ==
    CharacterGetter("getCharacterMetadataValue", guid,
                    IF getCharacterByGuid(chars, ext, guid) = "none" THEN 0
                    ELSE ext[getCharacterByGuid(chars, ext, guid)][key])

(***************************************************************************)
(* SlashCommandsUtil.  slashAvailable: globalThis.SlashCommandParser and   *)
(* globalThis.SlashCommand are defined; slashCommands: the commands the     *)
(* host parser holds.  Results: false and [] are 0, true and a non-empty    *)
(* list are 1.                                                             *)
(***************************************************************************)
isSlashCommandSystemAvailable == slashAvailable

registerSlashCommand(name, hostThrows) ==
    IF ~isSlashCommandSystemAvailable \/ hostThrows
    THEN /\ Settle("registerSlashCommand", "returned", 0, TRUE, TRUE)
         /\ UNCHANGED slashCommands
    ELSE /\ Settle("registerSlashCommand", "returned", 1, FALSE, FALSE)
         /\ slashCommands' = slashCommands \cup {name}

unregisterSlashCommand(name, hostThrows) ==
    IF ~isSlashCommandSystemAvailable
    THEN /\ Settle("unregisterSlashCommand", "returned", 0, TRUE, TRUE)
         /\ UNCHANGED slashCommands
    ELSE IF "removeCommand" \notin hostFns
    THEN /\ Settle("unregisterSlashCommand", "returned", 0, TRUE, TRUE)
         /\ UNCHANGED slashCommands
    ELSE IF hostThrows
    THEN /\ Settle("unregisterSlashCommand", "returned", 0, TRUE, TRUE)
         /\ UNCHANGED slashCommands
    ELSE /\ Settle("unregisterSlashCommand", "returned",
                   IF name \in slashCommands THEN 1 ELSE 0, FALSE, name \notin slashCommands)
         /\ slashCommands' = slashCommands \ {name}

\* try { unavailable -> throw; await executeCommand } catch { log; throw error }
executeSlashCommand(hostThrows) ==
    /\ IF ~isSlashCommandSystemAvailable \/ hostThrows
       THEN Settle("executeSlashCommand", "rejected", 0, TRUE, TRUE)
       ELSE Settle("executeSlashCommand", "returned", 1, FALSE, FALSE)
    /\ UNCHANGED slashCommands

getRegisteredCommands(hostThrows) ==
    /\ IF ~isSlashCommandSystemAvailable
       THEN Settle("getRegisteredCommands", "returned", 0, TRUE, FALSE)
       ELSE IF "getCommands" \notin hostFns
       THEN Settle("getRegisteredCommands", "returned", 0, TRUE, FALSE)
       ELSE IF hostThrows
       THEN Settle("getRegisteredCommands", "returned", 0, TRUE, TRUE)
       ELSE Settle("getRegisteredCommands", "returned",
                   IF slashCommands = {} THEN 0 ELSE 1, FALSE, FALSE)
    /\ UNCHANGED slashCommands

(***************************************************************************)
(* registerMultipleSlashCommands: a synchronous loop over the commands.    *)
(* A command is its name and what the host does with it: nothing wrong,    *)
(* SlashCommand.fromProps throws, or addCommandObject throws.              *)
(***************************************************************************)
HostFaults == {"none", "fromProps", "addCommandObject"}
Commands == [name : CommandNames, fault : HostFaults]

RECURSIVE SeqsUpTo(_, _)
SeqsUpTo(S, n) ==
    IF n = 0 THEN {<<>>}
    ELSE SeqsUpTo(S, n - 1) \cup {Append(q, x) : q \in {r \in SeqsUpTo(S, n - 1) : Len(r) = n - 1},
                                                  x \in S}

\* registerSlashCommand as the loop sees it: its result, and whether
\* addCommandObject was called
RegisterOne(available, command) ==
    [ok |-> available /\ command.fault = "none",
     addCalled |-> available /\ command.fault # "fromProps"]

\* variant of the loop that stops at the first failure
RECURSIVE RegisterAll_abortsOnFailure(_, _, _)
RegisterAll_abortsOnFailure(available, commands, acc) ==
    IF commands = <<>> THEN acc
    ELSE LET r == RegisterOne(available, Head(commands))
             calls == IF r.addCalled THEN Append(acc.addCalls, Head(commands).name)
                      ELSE acc.addCalls
         IN IF r.ok
            THEN RegisterAll_abortsOnFailure(available, Tail(commands),
                     [acc EXCEPT !.successCount = @ + 1, !.addCalls = calls,
                                 !.added = @ \cup {Head(commands).name}])
            ELSE [acc EXCEPT !.failedCommands = Append(@, Head(commands).name),
                             !.addCalls = calls]

\* for (const command of commands) { ... successCount++ / failedCommands.push }
RECURSIVE RegisterAll(_, _, _)
RegisterAll(available, commands, acc) ==
    IF commands = <<>> THEN acc
    ELSE LET r == RegisterOne(available, Head(commands))
             calls == IF r.addCalled THEN Append(acc.addCalls, Head(commands).name)
                      ELSE acc.addCalls
         IN IF r.ok
            THEN RegisterAll(available, Tail(commands),
                     [acc EXCEPT !.successCount = @ + 1, !.addCalls = calls,
                                 !.added = @ \cup {Head(commands).name}])
            ELSE RegisterAll(available, Tail(commands),
                     [acc EXCEPT !.failedCommands = Append(@, Head(commands).name),
                                 !.addCalls = calls])

registerMultipleSlashCommands(commands) ==
    /\ budget > 0
    /\ budget' = budget - 1
    /\ LET r == RegisterAll(isSlashCommandSystemAvailable, commands,
                            [successCount |-> 0, failedCommands |-> <<>>, addCalls |-> <<>>,
                             added |-> {}])
       IN /\ lastBatch' = [input |-> commands, available |-> slashAvailable,
                           success |-> r.successCount, failed |-> Len(r.failedCommands),
                           failedCommands |-> r.failedCommands, addCalls |-> r.addCalls,
                           outcome |-> "returned"]
          /\ slashCommands' = slashCommands \cup r.added
    /\ UNCHANGED <<chatMetadata, chat, hostFns, lastChat, slashAvailable, settingsVars, clearLog,
                   uiVars, charCore, vtVars, lastResult>>

NextBatch ==
    \/ \E c \in SeqsUpTo(Commands, MaxCommands) : registerMultipleSlashCommands(c)
    \/ HostSlashChange

NextSlash ==
    \/ \E n \in CommandNames, t \in BOOLEAN : registerSlashCommand(n, t)
    \/ \E n \in CommandNames, t \in BOOLEAN : unregisterSlashCommand(n, t)
    \/ \E t \in BOOLEAN : executeSlashCommand(t)
    \/ \E t \in BOOLEAN : getRegisteredCommands(t)

(***************************************************************************)
(* Specifications: the ValueTracker client (Spec: the cache; SpecReq: the  *)
(* requests, errors and extension ID; SpecClear: the operations that clear *)
(* the cache; SpecIdentity: those that set the extension ID), the          *)
(* character helpers (SpecChar, SpecMeta), the chat helpers (SpecChat),    *)
(* the settings manager (SpecSettings), batch registration of slash        *)
(* commands (SpecBatch), the logger (SpecLog), the header buttons          *)
(* (SpecHeader), and the operations of all classes under a host whose      *)
(* context and slash-command system come and go (SpecErr).                 *)
(***************************************************************************)
Init ==
    /\ InitVT
    /\ extensionId = "e1"
    /\ recording = FALSE
    /\ InitCharList
    /\ InitHost
    /\ stc = StcByIndex(0)
    /\ hostBudget = 0
    /\ budget = MaxCalls
Next == NextVT
Spec == Init /\ [][Next]_vars

InitLog ==
    /\ InitVT
    /\ extensionId = "e1"
    /\ recording = FALSE
    /\ InitCharList
    /\ InitHost
    /\ stc = StcByIndex(0)
    /\ hostBudget = 0
    /\ budget = MaxLogCalls
SpecLog == InitLog /\ [][NextLog]_vars

InitHeader ==
    /\ InitVT
    /\ extensionId = "e1"
    /\ recording = FALSE
    /\ InitCharList
    /\ InitHostBase
    /\ InitLogger
    /\ holder \in Holders
    /\ lastHeader = NoHeader
    /\ extensionSettings = NoModule
    /\ settings = [m \in Mgrs |-> NotConstructed]
    /\ saveCalls = 0
    /\ lastSet = NoSet
    /\ stc = StcByIndex(0)
    /\ hostBudget = 0
    /\ budget = MaxHeaderCalls
SpecHeader == InitHeader /\ [][NextHeader]_vars

InitReq ==
    /\ InitVT
    /\ extensionId \in {NoExtensionId} \cup ExtensionIds
    /\ recording = TRUE
    /\ InitCharList
    /\ InitHost
    /\ stc = StcByIndex(0)
    /\ hostBudget = 0
    /\ budget = MaxReqCalls
SpecReq == InitReq /\ [][NextReq]_vars

InitClear ==
    /\ InitVT
    /\ extensionId \in {NoExtensionId} \cup ExtensionIds
    /\ recording = FALSE
    /\ InitCharList
    /\ InitHost
    /\ stc = StcByIndex(0)
    /\ hostBudget = 0
    /\ budget = MaxCalls
SpecClear == InitClear /\ [][NextClear]_vars
SpecIdentity == InitClear /\ [][NextIdentity]_vars

InitChar ==
    /\ InitVT
    /\ extensionId = "e1"
    /\ recording = FALSE
    /\ InitCharList
    /\ InitHost
    /\ stc \in {StcByIndex(0), StcByGuid(StoredGuid)}
    /\ hostBudget = MaxHostOps
    /\ budget = MaxCharCalls
SpecChar == InitChar /\ [][NextChar]_vars

InitChat ==
    /\ InitVT
    /\ extensionId = "e1"
    /\ recording = FALSE
    /\ InitCharList
    /\ InitHost
    /\ stc = StcByIndex(0)
    /\ hostBudget = MaxHostOps
    /\ budget = MaxCharCalls
SpecChat == InitChat /\ [][NextChat]_vars

SpecBatch == InitChat /\ [][NextBatch]_vars

InitSettings ==
    /\ InitVT
    /\ extensionId = "e1"
    /\ recording = FALSE
    /\ InitCharList
    /\ InitHostCore
    /\ extensionSettings \in StoredModules
    /\ settings = [m \in Mgrs |-> NotConstructed]
    /\ saveCalls = 0
    /\ lastSet = NoSet
    /\ stc = StcByIndex(0)
    /\ hostBudget = 0
    /\ budget = MaxSetCalls
SpecSettings == InitSettings /\ [][NextSettings]_vars

InitMetaSpec ==
    /\ InitVT
    /\ extensionId = "e1"
    /\ recording = FALSE
    /\ InitMeta
    /\ InitHost
    /\ stc \in {StcByIndex(0), StcByIndex(1), StcByGuid(StoredGuid)}
    /\ hostBudget = MaxHostOps
    /\ budget = MaxCharCalls
SpecMeta == InitMetaSpec /\ [][NextMeta]_vars

NextErr ==
    \/ NextVT
    \/ NextCharCalls
    \/ \E g \in KnownGuids : getCharacterMetadata(g)
    \/ \E g \in KnownGuids, k \in SetterKeys : getCharacterMetadataValue(g, k)
    \/ \E a \in ContextAccessors : ContextAccessor(a)
    \/ NextSlash
    \/ HostContextChange
    \/ HostSlashChange
    \/ \E fn \in {"removeCommand", "getCommands"} : HostFunctionChange(fn)
SpecErr == InitChat /\ [][NextErr]_vars

(***************************************************************************)
(* Properties of the ValueTracker cache.                                   *)
(***************************************************************************)
\* a cache hit is stale with respect to a mutation when the mutation had
\* resolved before the read and the returned entry was written before the
\* mutation resolved
FreshAfter(class, id) ==
    resolvedAt[class][id] <= lastRead.seq => resolvedAt[class][id] <= lastRead.stored

\* C1: after an instance-data mutator on an instance id resolves, a read of
\* getInstanceData(id), getInstanceDataKey(id, k) or getInstance(id) is never
\* answered from a cache entry that was stored before that mutation.
C1_DataMutationInvalidatesReads ==
    \A i \in Insts :
        (lastRead.hit /\ lastRead.key \in
            ({InstanceDataKey(i), InstanceKey(i)} \cup {InstanceDataKeyKey(i, k) : k \in DataKeys}))
        => FreshAfter("data", i)

\* C2: after createOrUpdateInstance, deleteInstance(i) or
\* deleteAllInstancesForCharacter(c) resolves, a read of
\* getAllInstancesForCharacter(c), getInstance(i) or getCharacter(c), with i an
\* instance of c, is never answered from an entry stored before that mutation.
C2_InstanceMutationInvalidatesReads ==
    \A i \in Insts :
        (lastRead.hit /\ lastRead.key \in
            {InstanceKey(i), InstancesKey(Owner[i]), CharacterKey(Owner[i])})
        => (FreshAfter("instance", i) /\ FreshAfter("instance", Owner[i]))

C4_FreshEntryIsReturned == lastRead.fresh => lastRead.hit

\* C5: an entry is returned only while its age is below its ttl, the ttl is
\* 300000 ms, and a read that finds an entry at age >= ttl deletes it and
\* issues a request, so that any entry later held under the key was stored
\* with a timestamp not earlier than that read.
C5_NoReadReturnsExpiredEntry ==
    /\ lastRead.hit => lastRead.fresh
    /\ lastRead.expired =>
        /\ ~lastRead.hit
        /\ cache[lastRead.key].present => cache[lastRead.key].timestamp >= lastRead.at
    /\ \A k \in CacheKeys :
        cache[k].present => (cache[k].ttl = 300000 /\ cache[k].timestamp <= now)

\* C5 witness: a read found its entry expired and the refetched result is now
\* cached under the same key.
C5_Witness ==
    /\ lastRead.expired
    /\ cache[lastRead.key].present
    /\ cache[lastRead.key].timestamp = lastRead.at

(***************************************************************************)
(* Properties of the character GUID helpers.                               *)
(***************************************************************************)
AllEqual(q) == \A i, j \in 1..Len(q) : q[i] = q[j]

\* C6: for a character whose GUID calls were made one after the other (and
\* whose GUID field no other operation wrote), every call returned the same
\* GUID, writeExtensionField for 'guid' was invoked at most once, and not at
\* all when the character had a GUID before the first call.
C6_GuidGenerationIdempotent ==
    \A o \in Objs :
        (~overlapped[o] /\ ~foreign[o]) =>
            /\ AllEqual(returned[o])
            /\ guidWrites[o] <= 1
            /\ firstHadGuid[o] = "yes" => guidWrites[o] = 0

\* C6 witness: two calls in sequence for a character without a GUID both
\* returned, after exactly one write.
C6_Witness ==
    \E o \in Objs :
        /\ ~overlapped[o] /\ ~foreign[o]
        /\ firstHadGuid[o] = "no"
        /\ Len(returned[o]) >= 2
        /\ guidWrites[o] = 1
        /\ ext[o]["guid"] = returned[o][1]

\* C7: when calls that get or generate the GUID of one character overlapped
\* and have all finished, they returned the same GUID and the character in
\* memory holds that GUID.
C7_OverlappingCallsAgree ==
    \A o \in Objs :
        (overlapped[o] /\ ~GuidCallInFlight(o) /\ ~foreign[o]) =>
            /\ AllEqual(returned[o])
            /\ returned[o] # <<>> => ext[o]["guid"] = returned[o][1]

\* C8: every writeExtensionField issued by a GUID-addressed setter goes to the
\* index that the addressed character occupies in the host list at the moment
\* the write is issued.
C8_SetterWritesCarrierIndex ==
    lastWrite.by \in GuidSetterOps => lastWrite.idx = lastWrite.carrier
SentinelOps == {"getCharacterMetadata", "getCharacterMetadataValue", "setCharacterMetadataValue",
                "removeCharacterMetadata", "updateCharacterMetadata", "registerSlashCommand",
                "unregisterSlashCommand", "getRegisteredCommands"}

ChatSentinel(op) ==
    IF op \in {"getChatMetadata", "getChatMetadataValue", "getChatId"} THEN "null"
    ELSE IF op \in {"getChatMessages", "getUserMessages", "getCharacterMessages",
                    "getSystemMessages"} THEN "[]"
    ELSE IF op \in {"getChatMessageCount", "getUserMessageCount", "getCharacterMessageCount",
                    "getMaxContextLength", "getTokenCount"} THEN "0"
    ELSE IF op \in {"getLastMessage", "getChatMessage"} THEN "undefined"
    ELSE "false"

\* C10: no ChatUtil method rejects, and a call for which the context was
\* unavailable, chatMetadata or the required host function missing, or the
\* host call threw, returned its sentinel and left chat metadata unchanged.
C10_ChatUtilFailureYieldsSentinel ==
    /\ lastChat.outcome # "rejected"
    /\ lastChat.failed =>
        /\ lastChat.value = ChatSentinel(lastChat.op)
        /\ lastChat.after = lastChat.before

(***************************************************************************)
(* Properties of the ValueTracker requests.                                *)
(***************************************************************************)
\* C11: every rejected request rejects with a ValueTrackerError; its
\* statusCode is the response status for a non-OK response and undefined for
\* a network failure or an unparsable body; its details hold the url, the
\* method and the endpoint of the request
C11_RejectionIsValueTrackerError ==
    lastError # NoError =>
        /\ lastError.error.type = "ValueTrackerError"
        /\ (lastError.cause.kind = "http" /\ lastError.cause.status \notin 200..299)
              => lastError.error.statusCode = lastError.cause.status
        /\ (lastError.cause.kind = "network"
              \/ (lastError.cause.status \in 200..299 /\ lastError.cause.body = "unparsable"))
              => lastError.error.statusCode = Undefined
        /\ lastError.error.details.url = <<"api", "plugins", "valuetracker">> \o lastError.req.endpoint
        /\ lastError.error.details.method = lastError.req.method
        /\ lastError.error.details.endpoint = lastError.req.endpoint

\* the last call allowed was a DELETE that was answered 404 and rejected
C11_Witness ==
    /\ lastError.cause.kind = "http"
    /\ lastError.cause.status = 404
    /\ lastError.req.method = "DELETE"
    /\ lastError.error.statusCode = 404
    /\ budget = 0

IsOwnEndpoint(endpoint) == Head(endpoint) \in {"characters", "instances"}

\* C13: a request carries x-extension-id exactly when the object holds a
\* non-empty extension ID and the method is an own-extension operation, and
\* then the header is the ID held when the request is made; registration and
\* cross-extension reads never carry it
C13_HeaderOnOwnRequestsOnly ==
    [][\A s \in Slots :
         (pending[s] = Idle /\ pending'[s] # Idle) =>
             pending'[s].req.header =
                 IF IsOwnEndpoint(pending'[s].req.endpoint) /\ extensionId # ""
                 THEN extensionId ELSE "none"]_vars

\* after setExtensionId("e2") an own-extension request carries e2
C13_Witness ==
    /\ lastResult.op = "setExtensionId"
    /\ extensionId = "e2"
    /\ \E s \in Slots : /\ pending[s].kind # "idle"
                         /\ IsOwnEndpoint(pending[s].req.endpoint)
                         /\ pending[s].req.header = "e2"

\* C14: when deregisterExtension has resolved, and when
\* initializeValueTrackerAPI(x) has returned, the cache is empty and the
\* first cached read called afterwards issues a network request;
\* initializeValueTrackerAPI(x) makes getValueTrackerExtensionId() return x
C14_ClearedCacheForcesFetch ==
    [][/\ (lastResult'.op = "deregisterExtension" /\ budget' = budget /\ pending' # pending)
            => \A k \in CacheKeys : ~cache'[k].present
       /\ \A x \in ExtensionIds :
            initializeValueTrackerAPI(x)
                => /\ getValueTrackerExtensionId' = x
                   /\ \A k \in CacheKeys : ~cache'[k].present
       /\ (lastRead = Cleared /\ lastRead' # Cleared /\ budget' < budget)
            => ~lastRead'.hit]_vars

(***************************************************************************)
(* Properties of the metadata, settings and slash-command helpers.         *)
(***************************************************************************)
\* C15: when setChatMetadata has returned true, the next getChatMetadataValue(k)
\* returns the value stored at k, whatever it is, and null only when k is
\* absent or the metadata is unavailable
C15_MetadataGetReturnsStored ==
    [][\A k \in MetaKeys :
         (/\ lastChat.op = "setChatMetadata"
          /\ lastChat.value = "true"
          /\ chatMetadata = lastChat.after
          /\ getChatMetadataValue(k))
            => lastChat'.value =
                 IF ~ctxAvailable \/ ~chatMetadata.present \/ chatMetadata.map[k] = Absent
                 THEN "null" ELSE chatMetadata.map[k]]_vars

\* C16: a clearCharacterMetadata call that returned true has written undefined
\* exactly once to every extension key of the character other than 'guid' and
\* never to 'guid', and the character still carries its GUID; if the host did
\* not change its list during the call, every write went to the character's
\* index and getCharacterByGuid still finds the character.  A call that did
\* not find the character returned false and wrote nothing.
C16_ClearKeepsGuid ==
    \A p \in Procs :
        LET log == clearLog[p]
            written == {log.writes[i].key : i \in 1..Len(log.writes)}
        IN /\ log.done = "true" =>
                /\ Cardinality(written) = Len(log.writes)
                /\ written = {log.keys[i] : i \in 1..Len(log.keys)} \ {"guid"}
                /\ \A i \in 1..Len(log.writes) : log.writes[i].value = Undefined
                /\ ext[log.obj]["guid"] = log.guid
                /\ hostBudget = log.host =>
                      /\ \A i \in 1..Len(log.writes) : log.writes[i].idx = log.writes[i].carrier
                      /\ getCharacterByGuid(chars, ext, log.guid) = log.obj
           /\ log.obj = "none" => (log.done \in {"idle", "running", "false"} /\ log.writes = <<>>)

\* a call has cleared both metadata keys of a character and returned true with
\* the host list unchanged
C16_Witness ==
    \E p \in Procs :
        /\ clearLog[p].done = "true"
        /\ Len(clearLog[p].writes) = 2
        /\ hostBudget = clearLog[p].host
        /\ ext[clearLog[p].obj] = [k \in ExtKeys |-> IF k = "guid" THEN clearLog[p].guid
                                                     ELSE Undefined]

\* C17: exists() returns true exactly when the host's current list holds a
\* character matching the identifier the object was constructed with: one
\* whose extension 'guid' equals the string, or an entry at the numeric index
C17_ExistsTracksHostList ==
    [][\A p \in Procs :
         (ExistsResolved(p) /\ lastResult'.outcome = "returned") =>
             ((lastResult'.value = 1) <=>
                 IF stc.guid # Undefined THEN FindIndexByGuid(chars, ext, stc.guid) # -1
                 ELSE stc.legacyIndex >= 0 /\ stc.legacyIndex < Len(chars))]_vars

\* C18: right after construction, get(key) returns for every schema key the
\* value stored in the host entry when it is neither null nor undefined
\* (a stored falsy value is kept) and the schema default otherwise; only
\* schema keys are held; the constructor writes nothing to the host settings
\* and does not call saveSettingsDebounced
C18_LoadTakesStoredOrDefault ==
    [][\A m \in Mgrs :
         SettingsManager(m) =>
             /\ \A k \in SchemaKeys :
                  get(m, k)' = IF extensionSettings.present
                                   /\ extensionSettings.map[k] \notin {"null", "undefined"}
                               THEN extensionSettings.map[k] ELSE "default"
             /\ DOMAIN settings'[m].values = {"s1", "s2"}
             /\ extensionSettings' = extensionSettings
             /\ saveCalls' = saveCalls]_vars

\* a manager was built over an entry that stores a falsy value, null and a
\* foreign key, before any set
C18_Witness ==
    /\ saveCalls = 0
    /\ extensionSettings.present
    /\ extensionSettings.map = [s1 |-> "", s2 |-> "null", x |-> "v"]
    /\ settings[1].constructed
    /\ settings[1].values = [s1 |-> "", s2 |-> "default"]

\* C19 as stated: after set(key, v), get(key) returns v, the host entry exists
\* and holds v at key, saveSettingsDebounced was called exactly once, and a
\* manager constructed afterwards returns v from get(key)
C19_SetPersistsEveryValue ==
    [][/\ \A m \in Mgrs, k \in SchemaKeys, v \in SettingValues :
            set(m, k, v) => /\ get(m, k)' = v
                            /\ extensionSettings'.present
                            /\ extensionSettings'.map[k] = v
                            /\ saveCalls' = saveCalls + 1
       /\ \A m \in Mgrs :
            (SettingsManager(m) /\ lastSet # NoSet) => get(m, lastSet.key)' = lastSet.value]_vars

\* C19, amended: as above, but a manager constructed afterwards returns v only
\* when v is neither null nor undefined, and the schema default otherwise
C19_SetPersistsNonNullValue ==
    [][/\ \A m \in Mgrs, k \in SchemaKeys, v \in SettingValues :
            set(m, k, v) => /\ get(m, k)' = v
                            /\ extensionSettings'.present
                            /\ extensionSettings'.map[k] = v
                            /\ saveCalls' = saveCalls + 1
       /\ \A m \in Mgrs :
            (SettingsManager(m) /\ lastSet # NoSet) =>
                get(m, lastSet.key)' = IF lastSet.value \in {"null", "undefined"} THEN "default"
                                       ELSE lastSet.value]_vars

\* a second manager was constructed after the first had set a falsy value, and
\* returns it
C19_Witness ==
    /\ lastSet.mgr = 1
    /\ lastSet.value = ""
    /\ lastSet.next = 2
    /\ settings[2].values[lastSet.key] = ""
    /\ saveCalls = 1

\* the names of the commands of a batch that registerSlashCommand refuses
Refused(b) ==
    LET Bad(c) == ~b.available \/ c.fault # "none"
        bad == SelectSeq(b.input, Bad)
    IN [i \in 1..Len(bad) |-> bad[i].name]
Accepted(b) ==
    LET Good(c) == b.available /\ c.fault = "none"
    IN SelectSeq(b.input, Good)

\* the names of the commands for which the host's addCommandObject is reached
Reached(b) ==
    LET Reaches(c) == b.available /\ c.fault # "fromProps"
        reaching == SelectSeq(b.input, Reaches)
    IN [i \in 1..Len(reaching) |-> reaching[i].name]

\* C20: registerMultipleSlashCommands returns; success + failed is the number
\* of commands, failed is the length of failedCommands, failedCommands is the
\* names, in input order, of the commands registerSlashCommand refused, and
\* addCommandObject was called once, in input order, for each command that
\* reached it, so once for each command counted in success
C20_BatchCountsEveryCommand ==
    lastBatch # NoBatch =>
        /\ lastBatch.outcome = "returned"
        /\ lastBatch.success + lastBatch.failed = Len(lastBatch.input)
        /\ lastBatch.failed = Len(lastBatch.failedCommands)
        /\ lastBatch.failedCommands = Refused(lastBatch)
        /\ lastBatch.success = Len(Accepted(lastBatch))
        /\ lastBatch.addCalls = Reached(lastBatch)

\* a batch of three in which the first command failed in the host and the two
\* after it were registered
C20_Witness ==
    /\ Len(lastBatch.input) = 3
    /\ lastBatch.input[1].fault = "fromProps"
    /\ lastBatch.success = 2
    /\ lastBatch.failedCommands = <<lastBatch.input[1].name>>
    /\ Len(lastBatch.addCalls) = 2

\* the mutations that remove the entry of a key when they resolve, as
\* <<class, id>>: the character mutators for all-characters and
\* character:<id>, the instance-data mutators for instance-data:<id>
RemovedBy(key) ==
    IF key = AllCharactersKey THEN {<<"character", c>> : c \in Chars}
    ELSE IF key[1] = "character" THEN {<<"character", key[2]>>}
    ELSE IF key[1] = "instance-data" THEN {<<"data", key[2]>>}
    ELSE {}
Settled == \A s \in Slots : pending[s] = Idle

\* C23: once a cached read and a mutation of the same entity have both
\* settled, the cache holds no result the server produced before that
\* mutation, and no later read is answered with one.
C23_NoPreMutationResultAfterRace ==
    /\ Settled =>
          \A key \in CacheKeys : \A m \in RemovedBy(key) :
              cache[key].present => cache[key].asOf >= resolvedAt[m[1]][m[2]]
    /\ \A m \in RemovedBy(lastRead.key) :
          (lastRead.hit /\ resolvedAt[m[1]][m[2]] <= lastRead.seq)
              => lastRead.asOf >= resolvedAt[m[1]][m[2]]

\* C24: every result a cached read returns from the cache was fetched with
\* the x-extension-id the client holds at the time of the read (none when
\* it holds no extension ID).
C24_HitWasFetchedUnderCurrentId ==
    lastRead.hit => lastRead.header = lastRead.own

IsMutating(p) == p.kind \in {"mutation", "deregister"}

\* C25: a mutating call (deregisterExtension included) whose request fails
\* rejects, and neither issuing it nor its failure changes the cache;
\* getCharacter with an empty or white-space id rejects with a
\* ValueTrackerError, issues no request and leaves the cache as it is.
C25_FailedCallLeavesCache ==
    [][/\ \A s \in Slots :
            /\ (pending[s] = Idle /\ IsMutating(pending'[s])) => cache' = cache
            /\ (IsMutating(pending[s]) /\ RequestRejects(s)) =>
                   /\ cache' = cache
                   /\ lastResult'.outcome = "rejected"
                   /\ pending'[s] = Idle
       /\ \A s \in Slots, id \in InvalidIds :
            getCharacter(s, id) =>
                /\ cache' = cache
                /\ pending' = pending
                /\ lastRead' = lastRead
                /\ lastResult'.op = "getCharacter"
                /\ lastResult'.outcome = "rejected"
                /\ lastResult'.error.type = "ValueTrackerError"
      ]_vars

\* createOrUpdateCharacter was answered 500 and rejected while the cache
\* held the list of all characters, which is still there
C25_Witness ==
    /\ lastResult.outcome = "rejected"
    /\ lastError.req.method = "POST"
    /\ lastError.req.endpoint = <<"characters">>
    /\ lastError.cause.status = 500
    /\ cache[AllCharactersKey].present
    /\ Settled

\* C26: once a character carries a GUID, no step of CharacterUtil or
\* SillyTavernCharacter changes or removes the value under its extension
\* key guid, whatever key and value the setters are given.
C26_StoredGuidNeverChanges ==
    [][\A o \in Objs :
          ext[o]["guid"] # Undefined => ext'[o]["guid"] = ext[o]["guid"]]_vars

(***************************************************************************)
(* Properties of the logger and the header buttons.                        *)
(***************************************************************************)
\* C21: a log method of level m on a logger whose minimum level is k hands
\* exactly one message to the console when m >= k and none otherwise; at
\* level NONE nothing is handed over; a logger made without a level has
\* level INFO; setLevel(x) changes the level of that logger only and leaves
\* what the console already holds as it is.
C21_EmitsExactlyAtOrAboveLevel ==
    [][/\ \A l \in Loggers :
            /\ debug(l) => Len(console') = Len(console) + (IF DEBUG >= level[l] THEN 1 ELSE 0)
            /\ info(l) => Len(console') = Len(console) + (IF INFO >= level[l] THEN 1 ELSE 0)
            /\ warn(l) => Len(console') = Len(console) + (IF WARN >= level[l] THEN 1 ELSE 0)
            /\ error(l) => Len(console') = Len(console) + (IF ERROR >= level[l] THEN 1 ELSE 0)
            /\ (debug(l) \/ info(l) \/ warn(l) \/ error(l)) =>
                   /\ SubSeq(console', 1, Len(console)) = console
                   /\ level[l] = NONE => console' = console
                   /\ Len(console') > Len(console) =>
                          /\ console'[Len(console')].text.by = l
                          /\ console'[Len(console')].method = lastLog'.method
            /\ \A x \in LogLevels :
                   setLevel(l, x) =>
                       /\ console' = console
                       /\ level'[l] = x
                       /\ \A o \in Loggers \ {l} : level'[o] = level[o]
       /\ Logger({}) => level'["custom"] = INFO /\ console' = console
       /\ console # console' => lastLog'.emitted
      ]_vars

\* an error call at level NONE produced nothing, after a warn call of the
\* same logger had reached the console
C21_Witness ==
    /\ lastLog = [by |-> "logger", method |-> "error", min |-> NONE, emitted |-> FALSE]
    /\ level["logger"] = NONE
    /\ Len(console) = 1
    /\ console[1].method = "warn"
    /\ console[1].text.by = "logger"

\* the child index (from 0) at which a new button goes into a holder with n
\* children: p when 0 <= p < n, n when p >= n, n + p when p < 0; n for
\* 'last'; 0 for 'first' and for no position
StatedIndex(n, position) ==
    IF position.kind = "number"
    THEN IF position.n < 0 THEN n + position.n
         ELSE IF position.n >= n THEN n ELSE position.n
    ELSE IF position.kind = "last" THEN n ELSE 0

AddedAt(before, after, idx, id) ==
    /\ idx \in 0..Len(before)
    /\ Len(after) = Len(before) + 1
    /\ after[idx + 1] = NewButton(id)
    /\ SubSeq(after, 1, idx) \o SubSeq(after, idx + 2, Len(after)) = before

\* C22: AddHeaderButton on a holder with n children adds exactly one child,
\* the new button, at the index its position states, and keeps the n
\* children there were in their order.
C22_ButtonGoesToStatedIndex ==
    [][\A id \in ButtonIds, position \in Positions :
          (AddHeaderButton(id, position) /\ holder.present) =>
              AddedAt(holder.children, holder'.children,
                      StatedIndex(Len(holder.children), position), id)
      ]_vars

\* the children AddHeaderButton made, and whether their ids differ pairwise
Made(children) == {i \in 1..Len(children) : children[i].made}
DistinctIds(children) ==
    \A i, j \in Made(children) : i # j => children[i].id # children[j].id
\* the drawer shows: its content carries openDrawer and its icon openIcon
Open(e) == e.content /\ e.icon
Closed(e) == ~e.content /\ ~e.icon

\* C27: while the header buttons in the holder have pairwise distinct ids,
\* at most one of their drawers is open; a click on the toggle of a closed
\* drawer opens it and leaves every other drawer closed, and a click on the
\* toggle of an open drawer closes it and leaves every drawer closed.
C27_AtMostOneDrawerOpen ==
    /\ [](DistinctIds(holder.children) =>
             /\ \A i \in Made(holder.children) :
                    Open(holder.children[i]) \/ Closed(holder.children[i])
             /\ \A i, j \in Made(holder.children) :
                    (Open(holder.children[i]) /\ Open(holder.children[j])) => i = j)
    /\ [][\A i \in 1..(MaxHostChildren + MaxHeaderCalls) :
            (click(i) /\ DistinctIds(holder.children)) =>
                /\ Len(holder'.children) = Len(holder.children)
                /\ Closed(holder.children[i]) => Open(holder'.children[i])
                /\ Open(holder.children[i]) => Closed(holder'.children[i])
                /\ \A j \in Made(holder.children) \ {i} : Closed(holder'.children[j])
         ]_vars

\* two header buttons with different ids; the second was clicked while the
\* first was open, and now only the second is open
C27_Witness ==
    /\ lastHeader = [op |-> "click", outcome |-> "returned", id |-> "b2"]
    /\ budget = 0
    /\ Len(holder.children) = 2
    /\ DistinctIds(holder.children)
    /\ \E i, j \in Made(holder.children) :
          /\ holder.children[i].id = "b1" /\ Closed(holder.children[i])
          /\ holder.children[j].id = "b2" /\ Open(holder.children[j])

====================================================================
